---------------------------- MODULE Spec2Model ----------------------------
(***************************************************************************)
(* A model of WeFlow's encrypted-store access engine.                      *)
(*                                                                         *)
(*   Spec        ChatService.getMessages: the per-session message cursor   *)
(*               manager, called by one caller at a time.                  *)
(*   SpecOverlap the same, with calls interleaving at their awaits.        *)
(*   SpecOrder   ChatService.normalizeMessageOrder on every small batch.   *)
(*   SpecDat     ImageDecryptService.getDatVersion and decryptDatAuto on   *)
(*               every short container.                                    *)
(*   SpecResolve ImageDecryptService.resolveDatPath on every small         *)
(*               environment.                                              *)
(*   SpecImage   ImageDecryptService: decryptImage, resolveCachedImage,    *)
(*               the background update checks and clearCache, interleaving *)
(*               at their awaits.                                          *)
(*                                                                         *)
(* Further specifications study one function or one handler each through   *)
(* `arg` and `ret` (SpecXor, SpecPadding, SpecKey, SpecV4, SpecRows,        *)
(* SpecVoiceLookup, SpecBoundary, SpecHevc, SpecEffects, SpecContacts,      *)
(* SpecVoiceCache, SpecContent, SpecSchemaCache, SpecIndex, SpecVoiceKeys,  *)
(* SpecShards, SpecLatest) or restrict the services to some of their steps *)
(* (SpecImageKept, SpecTranscribe, SpecTranscribeKept, SpecShutdown,        *)
(* SpecPending); each is introduced where it is defined.                   *)
(***************************************************************************)
EXTENDS Integers, Sequences, FiniteSets, TLC

VARIABLES
    messageCursors,  \* ChatService.messageCursors: session -> state object (by handle), 0 = none
    stateObj,        \* the state objects {cursor, fetched, batchSize, startTime, endTime, ascending}
    native,          \* wcdbService's cursors: handle -> status, sequence parameters, position
    calls,           \* the getMessages invocations in flight: position and locals
    overlap,         \* per session: the calls now in flight on it ran interleaved
    trav,            \* per session: the pages a caller paging from offset 0 has collected
    arg,             \* the argument a function under study is applied to
    ret,             \* what it returned
    resolvedCache,   \* ImageDecryptService.resolvedCache: key -> decrypted output path
    datPathCache,    \* its `${accountDir}|${name}` entries: key -> container path
    updateFlags,     \* ImageDecryptService.updateFlags
    pending,         \* ImageDecryptService.pending: key -> decryptImageInternal run
    tasks,           \* the decryptImageInternal runs
    reqs,            \* the decryptImage / resolveCachedImage requests
    checks,          \* the checkHasUpdate runs started by triggerUpdateCheck
    clearing,        \* clearCache is removing the cache files
    datFiles,        \* containers in the account directory
    hardlinkRow,     \* hardlink.db: key -> file name suffix of its row
    outFiles,        \* files in the image cache directory
    hdDone,          \* per key: a high-definition container has been decrypted
    imageUpdates,    \* per key: emitImageUpdate calls since its last HD write (or clearCache)
    voiceWavCache,   \* ChatService.voiceWavCache: key -> decoded audio is held
    voiceTranscriptCache,    \* ChatService.voiceTranscriptCache: key -> transcript, "" = none
    voiceTranscriptPending,  \* ChatService.voiceTranscriptPending: key -> task, 0 = none
    transcribeRuns,  \* the transcription tasks getVoiceTranscript has started
    transcribeReqs   \* the getVoiceTranscript requests

cursorVars == <<messageCursors, stateObj, native, calls, overlap, trav>>
pureVars == <<arg, ret>>
imageVars == <<resolvedCache, datPathCache, updateFlags, pending, tasks, reqs, checks,
               clearing, datFiles, hardlinkRow, outFiles, hdDone, imageUpdates>>
voiceVars == <<voiceWavCache, voiceTranscriptCache, voiceTranscriptPending, transcribeRuns,
               transcribeReqs>>
vars == <<cursorVars, pureVars, imageVars, voiceVars>>

---------------------------------------------------------------------------
(* Bounds *)

MaxHandles == 3      \* native cursors tracked at once
StoreLen == 4        \* messages of session "s1"
MaxOffset == 3       \* largest offset a caller passes

(* Program constants *)

messageBatchDefault == 50

Sessions == {"s1", "s2"}
Calls == {1, 2}
Handles == 1..MaxHandles
Offsets == 0..MaxOffset
Limits == {0, 2}
StartTimes == {0, 2}
EndTimes == {0, 3}

\* The getMessages requests callers make: the plain page request of a session
\* (limit 2, no time range, descending) at every offset, and on "s1" also each
\* request that differs from it in one of limit, startTime, endTime, ascending.
Requests ==
    {r \in [sid : Sessions, offset : Offsets, limit : Limits, startTime : StartTimes,
            endTime : EndTimes, ascending : BOOLEAN] :
        /\ Cardinality({f \in {"limit", "startTime", "endTime", "ascending"} :
               r[f] # [limit |-> 2, startTime |-> 0, endTime |-> 0, ascending |-> FALSE][f]})
             <= (IF r.sid = "s1" THEN 1 ELSE 0)}

Max(a, b) == IF a > b THEN a ELSE b
Min(a, b) == IF a < b THEN a ELSE b

OverlapRequests ==
    {r \in Requests : /\ r.sid = "s1" /\ r.limit = 2 /\ r.startTime = 0 /\ r.endTime = 0
                      /\ r.offset \in {0, 2} /\ (r.ascending => r.offset = 0)}

---------------------------------------------------------------------------
(* Messages and the underlying store *)

Msg(t) == [localId |-> t, createTime |-> t, sortSeq |-> t]

MsgCount(sid) == IF sid = "s1" THEN StoreLen ELSE 2

RECURSIVE Reverse(_)
Reverse(s) == IF s = <<>> THEN <<>> ELSE Append(Reverse(Tail(s)), Head(s))

RECURSIVE Filter(_, _, _)
Filter(s, lo, hi) ==
    IF s = <<>> THEN <<>>
    ELSE IF (lo = 0 \/ Head(s).createTime >= lo) /\ (hi = 0 \/ Head(s).createTime <= hi)
         THEN <<Head(s)>> \o Filter(Tail(s), lo, hi)
         ELSE Filter(Tail(s), lo, hi)

\* The rows a cursor opened with these parameters runs over.
CursorSeq(sid, asc, begin, end) ==
    LET all == [i \in 1..MsgCount(sid) |-> Msg(i)]
        sel == Filter(all, begin, end)
    IN IF asc THEN sel ELSE Reverse(sel)

\* wcdbService.fetchMessageBatch: the next batchSize rows of the cursor.
BatchRows(n) ==
    LET seq == CursorSeq(n.sid, n.asc, n.begin, n.end)
    IN SubSeq(seq, n.pos + 1, Min(Len(seq), n.pos + n.batchSize))

\* The hasMore flags the engine may report with that batch: whether rows
\* remain, or (for a full batch at the very end) that it cannot tell yet.
BatchFlags(n) ==
    LET seq == CursorSeq(n.sid, n.asc, n.begin, n.end)
        rows == BatchRows(n)
    IN IF n.pos + Len(rows) < Len(seq) THEN {TRUE}
       ELSE IF Len(rows) = n.batchSize THEN {TRUE, FALSE}
       ELSE {FALSE}

---------------------------------------------------------------------------
(* ChatService helpers *)

\* const firstKey = first.sortSeq || first.createTime || first.localId || 0
OrderKey(m) ==
    IF m.sortSeq # 0 THEN m.sortSeq
    ELSE IF m.createTime # 0 THEN m.createTime
    ELSE IF m.localId # 0 THEN m.localId
    ELSE 0

normalizeMessageOrder_ReversesOnTie(messages) ==
    IF Len(messages) < 2 THEN messages
    ELSE IF OrderKey(messages[1]) >= OrderKey(messages[Len(messages)])
         THEN Reverse(messages)
         ELSE messages

normalizeMessageOrder(messages) ==
    IF Len(messages) < 2 THEN messages
    ELSE IF OrderKey(messages[1]) > OrderKey(messages[Len(messages)])
         THEN Reverse(messages)
         ELSE messages

\* Math.max(1, limit || this.messageBatchDefault)
BatchSizeOf(limit) == Max(1, IF limit = 0 THEN messageBatchDefault ELSE limit)

\* startTime > 10000000000 ? Math.floor(startTime / 1000) : startTime
\* (t > 10^10 written as (t - 1) \div 10^5 >= 10^5, within the integer width)
ToSeconds(t) == IF (t - 1) \div 100000 >= 100000 THEN t \div 1000 ELSE t

NoState == [cursor |-> 0, fetched |-> 0, batchSize |-> 0,
            startTime |-> 0, endTime |-> 0, ascending |-> FALSE]

needNewCursor_IgnoresEndTime(state, offset, batchSize, startTime, endTime, ascending) ==
    \/ state = NoState
    \/ offset = 0
    \/ state.batchSize # batchSize
    \/ state.startTime # startTime
    \/ state.ascending # ascending

needNewCursor_IgnoresOffsetZero(state, offset, batchSize, startTime, endTime, ascending) ==
    \/ state = NoState
    \/ state.batchSize # batchSize
    \/ state.startTime # startTime
    \/ state.endTime # endTime
    \/ state.ascending # ascending

needNewCursor_RebuildsOnMismatch(state, offset, batchSize, startTime, endTime, ascending) ==
    \/ state = NoState
    \/ offset = 0
    \/ offset # state.fetched
    \/ state.batchSize # batchSize
    \/ state.startTime # startTime
    \/ state.endTime # endTime
    \/ state.ascending # ascending

needNewCursor(state, offset, batchSize, startTime, endTime, ascending) ==
    \/ state = NoState
    \/ offset = 0
    \/ state.batchSize # batchSize
    \/ state.startTime # startTime
    \/ state.endTime # endTime
    \/ state.ascending # ascending

---------------------------------------------------------------------------
(* State of one getMessages invocation *)

NoResult == [kind |-> "none", messages |-> <<>>, hasMore |-> FALSE]
ErrorResult == [kind |-> "error", messages |-> <<>>, hasMore |-> FALSE]
OkResult(messages, hasMore) == [kind |-> "ok", messages |-> messages, hasMore |-> hasMore]

PageResult_HasMoreByRows(rows, hasMore) == OkResult(normalizeMessageOrder(rows), rows # <<>>)

\* what getMessages returns for the batch it fetched: lines 780-800
PageResult(rows, hasMore) == OkResult(normalizeMessageOrder(rows), hasMore)

IdleCall ==
    [pc |-> "idle", sid |-> "", offset |-> 0, limit |-> 0, startTime |-> 0,
     endTime |-> 0, ascending |-> FALSE,
     state |-> 0,            \* local `state`: the state object held, by handle
     skipped |-> 0,          \* local `skipped`
     rows |-> 0,             \* rows.length of the batch awaiting the emoji fix
     decided |-> FALSE,      \* the call has evaluated needNewCursor
     snap |-> NoState,       \* the state object stored for the session at that moment
     closedH |-> 0,          \* handle passed to closeMessageCursor, 0 = none
     opened |-> FALSE,       \* openMessageCursor was called
     fresh |-> FALSE,        \* openMessageCursor succeeded
     fetchedFrom |-> 0,      \* handle of the last fetchMessageBatch, 0 = none
     lastFlag |-> "none",    \* hasMore of the last fetchMessageBatch
     result |-> NoResult]

FreeCursor == [st |-> "free", sid |-> "", batchSize |-> 0, asc |-> FALSE,
               begin |-> 0, end |-> 0, pos |-> 0]

InFlight(cs, sid) == {c \in Calls : cs[c].pc \notin {"idle", "done"} /\ cs[c].sid = sid}

Referenced(h, map, cs) ==
    \/ \E s \in Sessions : map[s] = h
    \/ \E c \in Calls : h \in {cs[c].state, cs[c].closedH, cs[c].fetchedFrom, cs[c].snap.cursor}

NoTrav == [on |-> FALSE, limit |-> 0, startTime |-> 0, endTime |-> 0,
           ascending |-> FALSE, pages |-> 0, acc |-> <<>>]

\* What the caller of the finished call k holds: a caller pages through a
\* session by asking for offset 0 and then, with the same parameters, for the
\* offset that is the number of records it has received so far.
Collected(t, k) ==
    IF k.result.kind # "ok" \/ overlap[k.sid] THEN NoTrav
    ELSE IF k.offset = 0
         THEN [on |-> TRUE, limit |-> k.limit, startTime |-> k.startTime,
               endTime |-> k.endTime, ascending |-> k.ascending, pages |-> 1,
               acc |-> k.result.messages]
    ELSE IF /\ t.on /\ t.limit = k.limit /\ t.startTime = k.startTime
            /\ t.endTime = k.endTime /\ t.ascending = k.ascending
            /\ k.offset = Len(t.acc)
         THEN [t EXCEPT !.pages = IF k.result.messages = <<>> THEN @ ELSE @ + 1,
                        !.acc = @ \o k.result.messages]
    ELSE NoTrav

\* A closed cursor that nothing refers to any more is forgotten, so that its
\* handle stands for a fresh one when the engine hands it out again.
Commit(nat, obj, map, cs) ==
    LET dead == {h \in Handles : nat[h].st = "closed" /\ ~Referenced(h, map, cs)}
    IN /\ native' = [h \in Handles |-> IF h \in dead THEN FreeCursor ELSE nat[h]]
       /\ stateObj' = [h \in Handles |-> IF h \in dead THEN NoState ELSE obj[h]]
       /\ messageCursors' = map
       /\ calls' = cs
       /\ UNCHANGED <<pureVars, imageVars, voiceVars>>
       /\ trav' = [s \in Sessions |->
             IF \E c \in Calls : calls[c].pc # "done" /\ cs[c].pc = "done" /\ cs[c].sid = s
             THEN LET c == CHOOSE c \in Calls :
                              calls[c].pc # "done" /\ cs[c].pc = "done" /\ cs[c].sid = s
                  IN Collected(trav[s], cs[c])
             ELSE IF \E c \in Calls : calls[c].pc \in {"idle", "done"} /\ cs[c].pc = "connect"
                                         /\ cs[c].sid = s /\ InFlight(calls, s) # {}
             THEN NoTrav
             ELSE trav[s]]

FreeHandles == {h \in Handles : native[h].st = "free"}

\* wcdbService.closeMessageCursor
CloseCursor(nat, h) ==
    IF h \in Handles /\ nat[h].st = "open" THEN [nat EXCEPT ![h].st = "closed"] ELSE nat

\* wcdbService.fetchMessageBatch succeeds on an open cursor only
CanFetch(h) == h \in Handles /\ native[h].st = "open"

Finish(c, cs, res) == [cs EXCEPT ![c].pc = "done", ![c].result = res]

\* The variant that counts batches instead of rows.
Fetched_CountsBatches(obj, h, n) == [obj EXCEPT ![h].fetched = @ + 1]

\* state.fetched += rows.length: lines 746 and 797
Fetched(obj, h, n) == [obj EXCEPT ![h].fetched = @ + n]

---------------------------------------------------------------------------
(* getMessages, one action per stretch of code between two awaits *)

\* a caller invokes getMessages; it suspends at `await this.ensureConnected()`
GetMessages(c, sid, offset, limit, startTime, endTime, ascending) ==
    /\ calls[c].pc \in {"idle", "done"}
    /\ \A d \in Calls : d < c => calls[d].pc \notin {"idle", "done"}
    /\ Cardinality(FreeHandles) > Cardinality({d \in Calls : calls[d].pc \notin {"idle", "done"}})
    /\ overlap' = [overlap EXCEPT ![sid] = InFlight(calls, sid) # {}]
    /\ Commit(native, stateObj, messageCursors,
              [calls EXCEPT ![c] = [IdleCall EXCEPT !.pc = "connect", !.sid = sid,
                   !.offset = offset, !.limit = limit, !.startTime = startTime,
                   !.endTime = endTime, !.ascending = ascending]])

\* ensureConnected returned: lines 689-717
Connected(c, ok) ==
    /\ calls[c].pc = "connect"
    /\ LET k == calls[c]
           h == messageCursors[k.sid]
           state == IF h = 0 THEN NoState ELSE stateObj[h]
           need == needNewCursor(state, k.offset, BatchSizeOf(k.limit),
                                 k.startTime, k.endTime, k.ascending)
       IN IF ~ok
          THEN Commit(native, stateObj, messageCursors, Finish(c, calls, ErrorResult))
          ELSE Commit(native, stateObj, messageCursors,
                 [calls EXCEPT ![c].decided = TRUE, ![c].snap = state, ![c].state = h,
                     ![c].closedH = IF need /\ h # 0 THEN h ELSE 0,
                     ![c].opened = need /\ h = 0,
                     ![c].pc = IF need THEN (IF h # 0 THEN "closing" ELSE "opening")
                               ELSE "fetching"])
    /\ UNCHANGED overlap

\* closeMessageCursor returned: lines 713-723
CursorClosed(c) ==
    /\ calls[c].pc = "closing"
    /\ Commit(CloseCursor(native, calls[c].state), stateObj, messageCursors,
              [calls EXCEPT ![c].pc = "opening", ![c].opened = TRUE])
    /\ UNCHANGED overlap

\* openMessageCursor returned: lines 724-737
CursorOpened(c, ok) ==
    /\ calls[c].pc = "opening"
    /\ LET k == calls[c]
           batchSize == BatchSizeOf(k.limit)
       IN IF ~ok
          THEN Commit(native, stateObj, messageCursors, Finish(c, calls, ErrorResult))
          ELSE \E h \in FreeHandles :
                 /\ \A g \in FreeHandles : h <= g
                 /\ Commit(
                      [native EXCEPT ![h] = [st |-> "open", sid |-> k.sid,
                           batchSize |-> batchSize, asc |-> k.ascending,
                           begin |-> ToSeconds(k.startTime), end |-> ToSeconds(k.endTime),
                           pos |-> 0]],
                      [stateObj EXCEPT ![h] = [cursor |-> h, fetched |-> 0,
                           batchSize |-> batchSize, startTime |-> k.startTime,
                           endTime |-> k.endTime, ascending |-> k.ascending]],
                      [messageCursors EXCEPT ![k.sid] = h],
                      [calls EXCEPT ![c].state = h, ![c].fresh = TRUE, ![c].skipped = 0,
                           ![c].pc = IF k.offset > 0 THEN "skipping" ELSE "fetching"])
    /\ UNCHANGED overlap

\* a fetchMessageBatch of the skip loop returned: lines 737-754
SkipFetched(c, flag) ==
    /\ calls[c].pc = "skipping"
    /\ LET k == calls[c]
           h == k.state
       IN IF ~CanFetch(h)
          THEN Commit(native, stateObj, messageCursors,
                      Finish(c, [calls EXCEPT ![c].fetchedFrom = h, ![c].lastFlag = "none"],
                             ErrorResult))
          ELSE LET rows == BatchRows(native[h])
                   n == Len(rows)
                   nat == [native EXCEPT ![h].pos = @ + n]
                   cs == [calls EXCEPT ![c].fetchedFrom = h, ![c].lastFlag = flag]
               IN /\ flag \in BatchFlags(native[h])
                  /\ IF n = 0
                     THEN Commit(nat, stateObj, messageCursors,
                                 Finish(c, cs, OkResult(<<>>, FALSE)))
                     ELSE LET obj == Fetched(stateObj, h, n)
                              cs2 == [cs EXCEPT ![c].skipped = @ + n]
                          IN IF ~flag
                             THEN Commit(nat, obj, messageCursors,
                                         Finish(c, cs2, OkResult(<<>>, FALSE)))
                             ELSE Commit(nat, obj, messageCursors,
                                    [cs2 EXCEPT ![c].pc =
                                        IF cs2[c].skipped < k.offset THEN "skipping"
                                        ELSE "fetching"])
    /\ UNCHANGED overlap

\* the fetchMessageBatch of the page returned: lines 769-799
BatchFetched(c, flag, emoji) ==
    /\ calls[c].pc = "fetching"
    /\ LET k == calls[c]
           h == k.state
       IN IF ~CanFetch(h)
          THEN /\ flag = FALSE /\ emoji = FALSE
               /\ Commit(native, stateObj, messageCursors,
                      Finish(c, [calls EXCEPT ![c].fetchedFrom = h, ![c].lastFlag = "none"],
                             ErrorResult))
          ELSE LET rows == BatchRows(native[h])
                   n == Len(rows)
                   nat == [native EXCEPT ![h].pos = @ + n]
                   cs == [calls EXCEPT ![c].fetchedFrom = h, ![c].lastFlag = flag,
                                       ![c].result = PageResult(rows, flag)]
               IN /\ flag \in BatchFlags(native[h])
                  /\ emoji => n > 0
                  /\ IF emoji
                     THEN Commit(nat, stateObj, messageCursors,
                                 [cs EXCEPT ![c].pc = "fixing", ![c].rows = n])
                     ELSE Commit(nat, Fetched(stateObj, h, n),
                                 messageCursors, [cs EXCEPT ![c].pc = "done"])
    /\ UNCHANGED overlap

\* Promise.allSettled(fixPromises) returned: lines 797-799
EmojiFixed(c) ==
    /\ calls[c].pc = "fixing"
    /\ Commit(native, Fetched(stateObj, calls[c].state, calls[c].rows),
              messageCursors, [calls EXCEPT ![c].pc = "done", ![c].rows = 0])
    /\ UNCHANGED overlap

---------------------------------------------------------------------------

CursorInit ==
    /\ messageCursors = [s \in Sessions |-> 0]
    /\ stateObj = [h \in Handles |-> NoState]
    /\ native = [h \in Handles |-> FreeCursor]
    /\ calls = [c \in Calls |-> IdleCall]
    /\ overlap = [s \in Sessions |-> FALSE]
    /\ trav = [s \in Sessions |-> NoTrav]

Steps ==
    \/ \E c \in Calls, ok \in BOOLEAN : Connected(c, ok)
    \/ \E c \in Calls : CursorClosed(c)
    \/ \E c \in Calls, ok \in BOOLEAN : CursorOpened(c, ok)
    \/ \E c \in Calls, flag \in BOOLEAN : SkipFetched(c, flag)
    \/ \E c \in Calls, flag \in BOOLEAN, emoji \in BOOLEAN : BatchFetched(c, flag, emoji)
    \/ \E c \in Calls : EmojiFixed(c)

\* Callers that keep to the contract: one getMessages call at a time.
Next ==
    \/ \E r \in Requests :
            GetMessages(1, r.sid, r.offset, r.limit, r.startTime, r.endTime, r.ascending)
    \/ Steps

\* Callers as the viewer has them: loadMessages is started by the scroll
\* handler, by the jump dialog and by a session switch without waiting for a
\* getMessages call that is still running.
NextOverlap ==
    \/ \E c \in Calls, r \in OverlapRequests :
            GetMessages(c, r.sid, r.offset, r.limit, r.startTime, r.endTime, r.ascending)
    \/ Steps

\* close(), lines 229-240: every stored cursor is closed and the map is emptied
Close ==
    /\ Commit([h \in Handles |->
                  IF \E s \in Sessions : messageCursors[s] = h
                  THEN CloseCursor(native, h)[h] ELSE native[h]],
              stateObj, [s \in Sessions |-> 0], calls)
    /\ UNCHANGED overlap

\* The viewer's calls, and the shutdown of the service.
NextShutdown ==
    \/ NextOverlap
    \/ Close

---------------------------------------------------------------------------
(* Functions studied on their own: the argument is drawn in the initial   *)
(* state and the function is applied to it once.                          *)

NoArg == [fn |-> "none"]
NoRet == [done |-> FALSE]

PureIdle == arg = NoArg /\ ret = NoRet

(* ChatService.normalizeMessageOrder *)

MaxBatchLen == 3     \* records in a batch
MaxKey == 3          \* largest sortSeq of a record

Records == [sortSeq : 0..MaxKey, createTime : {0, 2}, localId : {0, 1}]

Batches == UNION {[1..n -> Records] : n \in 0..MaxBatchLen}

NormalizeMessageOrderCall ==
    /\ arg.fn = "normalizeMessageOrder" /\ ~ret.done
    /\ ret' = [done |-> TRUE, messages |-> normalizeMessageOrder(arg.messages)]
    /\ UNCHANGED <<arg, cursorVars, imageVars, voiceVars>>

(* ChatService.getLatestMessages, one action per stretch of code between  *)
(* two awaits; `ret` holds the position and the locals of the call         *)

\* the limit callers pass, and the session they ask for
LatestLimits == {2}
LatestSessions == {"s1"}

\* the getMessages requests made beside it: the plain page requests of "s1"
LatestRequests ==
    {r \in Requests : /\ r.sid = "s1" /\ r.limit = 2 /\ r.startTime = 0 /\ r.endTime = 0
                      /\ ~r.ascending /\ r.offset \in {0, 2}}

LatestResult(success, messages, error) ==
    [success |-> success, messages |-> messages, error |-> error]

LatestIdle ==
    [done |-> FALSE, pc |-> "idle", sid |-> "", limit |-> 0, cursor |-> 0,
     result |-> LatestResult(FALSE, <<>>, "")]

LatestReturned(r, result) == [r EXCEPT !.done = TRUE, !.pc = "returned", !.result = result]

LatestAt(pc) == arg.fn = "getLatestMessages" /\ ret.pc = pc

\* the steps of getLatestMessages never assign to messageCursors or to a
\* stored state object
LatestFrame ==
    UNCHANGED <<arg, messageCursors, stateObj, calls, overlap, trav, imageVars, voiceVars>>

\* a caller invokes getLatestMessages; it suspends at ensureConnected
GetLatestMessages(sid, limit) ==
    /\ arg.fn = "getLatestMessages" /\ ret.pc \in {"idle", "returned"}
    /\ ret' = [LatestIdle EXCEPT !.pc = "connect", !.sid = sid, !.limit = limit]
    /\ UNCHANGED native
    /\ LatestFrame

\* ensureConnected returned: lines 877-883
LatestConnected(ok) ==
    /\ LatestAt("connect")
    /\ ret' = IF ok THEN [ret EXCEPT !.pc = "opening"]
              ELSE LatestReturned(ret, LatestResult(FALSE, <<>>, "not connected"))
    /\ UNCHANGED native
    /\ LatestFrame

\* openMessageCursor(sessionId, Math.max(1, limit), false, 0, 0) returned:
\* lines 883-888
LatestCursorOpened(ok) ==
    /\ LatestAt("opening")
    /\ IF ~ok
       THEN /\ ret' = LatestReturned(ret, LatestResult(FALSE, <<>>, "open failed"))
            /\ UNCHANGED native
       ELSE \E h \in FreeHandles :
              /\ \A g \in FreeHandles : h <= g
              /\ native' = [native EXCEPT ![h] =
                               [st |-> "open", sid |-> ret.sid, batchSize |-> Max(1, ret.limit),
                                asc |-> FALSE, begin |-> 0, end |-> 0, pos |-> 0]]
              /\ ret' = [ret EXCEPT !.cursor = h, !.pc = "fetching"]
    /\ LatestFrame

\* The variant that returns from a failed fetch at once, past the `finally`.
AfterLatestFetch_ReturnsOnFailure(r, outcome, rows, emoji) ==
    IF outcome = "ok"
    THEN [r EXCEPT !.result = LatestResult(TRUE, normalizeMessageOrder(rows), ""),
                   !.pc = IF emoji THEN "fixing" ELSE "closing"]
    ELSE IF outcome = "failed"
    THEN LatestReturned(r, LatestResult(FALSE, <<>>, "fetch failed"))
    ELSE [r EXCEPT !.result = LatestResult(FALSE, <<>>, "exception"), !.pc = "closing"]

\* lines 890-910: what the call does with the batch; every way out of the
\* try block runs the `finally`
AfterLatestFetch(r, outcome, rows, emoji) ==
    IF outcome = "ok"
    THEN [r EXCEPT !.result = LatestResult(TRUE, normalizeMessageOrder(rows), ""),
                   !.pc = IF emoji THEN "fixing" ELSE "closing"]
    ELSE IF outcome = "failed"
    THEN [r EXCEPT !.result = LatestResult(FALSE, <<>>, "fetch failed"), !.pc = "closing"]
    ELSE [r EXCEPT !.result = LatestResult(FALSE, <<>>, "exception"), !.pc = "closing"]

\* fetchMessageBatch returned a batch, returned a failure, or threw
LatestBatchFetched(outcome, emoji) ==
    /\ LatestAt("fetching")
    /\ LET h == ret.cursor
           rows == IF outcome = "ok" THEN BatchRows(native[h]) ELSE <<>>
       IN /\ outcome = "ok" => CanFetch(h)
          /\ emoji => (outcome = "ok" /\ rows # <<>>)
          /\ native' = [native EXCEPT ![h].pos = @ + Len(rows)]
          /\ ret' = AfterLatestFetch(ret, outcome, rows, emoji)
    /\ LatestFrame

\* Promise.allSettled(fixPromises) returned: lines 903-905
LatestEmojiFixed ==
    /\ LatestAt("fixing")
    /\ ret' = [ret EXCEPT !.pc = "closing"]
    /\ UNCHANGED native
    /\ LatestFrame

\* the `finally`: closeMessageCursor returned, lines 908-910
LatestCursorClosed ==
    /\ LatestAt("closing")
    /\ native' = CloseCursor(native, ret.cursor)
    /\ ret' = LatestReturned(ret, ret.result)
    /\ LatestFrame

NextLatest ==
    \/ \E r \in LatestRequests :
            GetMessages(1, r.sid, r.offset, r.limit, r.startTime, r.endTime, r.ascending)
    \/ Steps
    \/ \E sid \in LatestSessions, limit \in LatestLimits : GetLatestMessages(sid, limit)
    \/ \E ok \in BOOLEAN : LatestConnected(ok)
    \/ \E ok \in BOOLEAN : LatestCursorOpened(ok)
    \/ \E outcome \in {"ok", "failed", "throw"}, emoji \in BOOLEAN :
            LatestBatchFetched(outcome, emoji)
    \/ LatestEmojiFixed
    \/ LatestCursorClosed

(* ImageDecryptService.getDatVersion and decryptDatAuto *)

MaxDatLen == 6       \* bytes in a container

\* the byte values the signatures are made of: 0x07 0x08 0x56 0x31 0x32
SignatureBytes == {7, 8, 86, 49, 50}

V1Signature == <<7, 8, 86, 49, 8, 7>>
V2Signature == <<7, 8, 86, 50, 8, 7>>

\* private readonly defaultV1AesKey = 'cfcd208495d565ef'
defaultV1AesKey == [text |-> "cfcd208495d565ef", length |-> 16]

\* a Buffer | null holding an AES key
NullKey == [threw |-> FALSE, isNull |-> TRUE, text |-> "", length |-> 0]
AesKeys == {NullKey} \cup {[threw |-> FALSE, isNull |-> FALSE, text |-> "configured",
                             length |-> n] : n \in {8, 16}}

\* a container on disk, or the path of none
DatContents == [exists : {TRUE}, bytes : UNION {[1..n -> SignatureBytes] : n \in 0..MaxDatLen}]
                  \cup {[exists |-> FALSE, bytes |-> <<>>]}

Threw == [threw |-> TRUE, version |-> 0]
Version(v) == [threw |-> FALSE, version |-> v]

getDatVersion_SwapsSignatures(file) ==
    IF ~file.exists THEN Threw
    ELSE IF Len(file.bytes) < 6 THEN Version(0)
    ELSE IF SubSeq(file.bytes, 1, 6) = V1Signature THEN Version(2)
    ELSE IF SubSeq(file.bytes, 1, 6) = V2Signature THEN Version(1)
    ELSE Version(0)

getDatVersion(file) ==
    IF ~file.exists THEN Threw
    ELSE IF Len(file.bytes) < 6 THEN Version(0)
    ELSE IF SubSeq(file.bytes, 1, 6) = V1Signature THEN Version(1)
    ELSE IF SubSeq(file.bytes, 1, 6) = V2Signature THEN Version(2)
    ELSE Version(0)

asciiKey16(keyString) ==
    IF keyString.length < 16
    THEN [threw |-> TRUE, isNull |-> TRUE, text |-> "", length |-> 0]
    ELSE [threw |-> FALSE, isNull |-> FALSE, text |-> keyString.text, length |-> 16]

\* which decryption decryptDatAuto runs, and the AES key it hands to it
Route(fn, key) == [fn |-> fn, key |-> key]

decryptDatAuto(file, aesKey) ==
    LET version == getDatVersion(file)
    IN IF version.threw THEN Route("throw", NullKey)
       ELSE IF version.version = 0 THEN Route("decryptDatV3", NullKey)
       ELSE IF version.version = 1
            THEN LET key == asciiKey16(defaultV1AesKey)
                 IN IF key.threw THEN Route("throw", NullKey) ELSE Route("decryptDatV4", key)
       ELSE IF aesKey.isNull \/ aesKey.length # 16 THEN Route("throw", NullKey)
       ELSE Route("decryptDatV4", aesKey)

DecryptDatAutoCall ==
    /\ arg.fn = "decryptDatAuto" /\ ~ret.done
    /\ ret' = [done |-> TRUE, version |-> getDatVersion(arg.file),
               route |-> decryptDatAuto(arg.file, arg.aesKey)]
    /\ UNCHANGED <<arg, cursorVars, imageVars, voiceVars>>

---------------------------------------------------------------------------
(* ImageDecryptService.decryptDatV3 (ChatService carries the same function) *)

MaxXorLen == 3       \* bytes in the data handed to decryptDatV3

XorBytes == {0, 7, 83, 255}
XorKeys == 0..255

XorData == UNION {[1..n -> XorBytes] : n \in 0..MaxXorLen}

\* a ^ b on non-negative integers
RECURSIVE BitXor(_, _)
BitXor(a, b) ==
    IF a = 0 THEN b
    ELSE IF b = 0 THEN a
    ELSE ((a + b) % 2) + 2 * BitXor(a \div 2, b \div 2)

\* an assignment to an element of a Buffer keeps the low eight bits
ToByte(n) == n % 256

decryptDatV3_AddsKey(data, xorKey) ==
    [i \in 1..Len(data) |-> ToByte(data[i] + xorKey)]

decryptDatV3(data, xorKey) ==
    [i \in 1..Len(data) |-> ToByte(BitXor(data[i], xorKey))]

\* decryptDatV3(data, xorKey)
DecryptDatV3Call ==
    /\ arg.fn = "decryptDatV3" /\ ~ret.done
    /\ ret' = [done |-> TRUE, again |-> FALSE,
               out |-> decryptDatV3(arg.data, arg.xorKey)]
    /\ UNCHANGED <<arg, cursorVars, imageVars, voiceVars>>

\* decryptDatV3 applied to its own output, with the same key
DecryptDatV3Again ==
    /\ arg.fn = "decryptDatV3" /\ ret.done /\ ~ret.again
    /\ ret' = [done |-> TRUE, again |-> TRUE,
               out |-> decryptDatV3(ret.out, arg.xorKey)]
    /\ UNCHANGED <<arg, cursorVars, imageVars, voiceVars>>

(* ImageDecryptService.strictRemovePadding (ChatService carries the same function) *)

MaxPadLen == 6       \* bytes in a short decrypted buffer

PadBytes == {0, 1, 2, 5, 17}

\* n bytes of value p
Run(p, n) == [i \in 1..n |-> p]

\* every short buffer, and the buffers that end in 15 to 17 bytes of 16 or 17
PadBuffers ==
    UNION {[1..n -> PadBytes] : n \in 0..MaxPadLen}
      \cup {b \o Run(p, n) : b \in {<<>>, <<0>>, <<16>>}, p \in {16, 17}, n \in 15..17}

PaddingThrew(why) == [threw |-> TRUE, error |-> why, data |-> <<>>]
Unpadded(data) == [threw |-> FALSE, error |-> "", data |-> data]

strictRemovePadding_ChecksLastByteOnly(data) ==
    IF Len(data) = 0 THEN PaddingThrew("empty")
    ELSE LET paddingLength == data[Len(data)]
         IN IF paddingLength = 0 \/ paddingLength > 16 \/ paddingLength > Len(data)
            THEN PaddingThrew("length")
            ELSE Unpadded(SubSeq(data, 1, Len(data) - paddingLength))

strictRemovePadding(data) ==
    IF Len(data) = 0 THEN PaddingThrew("empty")
    ELSE LET paddingLength == data[Len(data)]
         IN IF paddingLength = 0 \/ paddingLength > 16 \/ paddingLength > Len(data)
            THEN PaddingThrew("length")
            ELSE IF \E i \in (Len(data) - paddingLength + 1)..Len(data) :
                        data[i] # paddingLength
            THEN PaddingThrew("content")
            ELSE Unpadded(SubSeq(data, 1, Len(data) - paddingLength))

StrictRemovePaddingCall ==
    /\ arg.fn = "strictRemovePadding" /\ ~ret.done
    /\ ret' = [done |-> TRUE, result |-> strictRemovePadding(arg.data)]
    /\ UNCHANGED <<arg, cursorVars, imageVars, voiceVars>>

---------------------------------------------------------------------------
(* ImageDecryptService.decryptDatV4 (ChatService carries the same function) *)

MaxV4Blocks == 2     \* 16-byte blocks at the start of a payload
MaxV4Tail == 2       \* bytes that follow the blocks of a payload

\* values of the header's aesSize and xorSize fields
V4AesSizes == {-17, -16, -1, 0, 1, 16, 17}
V4XorSizes == {-1, 0, 1, 2, 3}
V4XorKeys == {0, 83}

\* the four bytes of a 32-bit header field, least significant first
Int32Bytes(n) ==
    <<n % 256, (n \div 256) % 256, (n \div 65536) % 256, (n \div 16777216) % 256>>

\* bytes[0] | (bytes[1] << 8) | (bytes[2] << 16) | (bytes[3] << 24): the
\* bitwise operators work on signed 32-bit integers
bytesToInt32(bytes) ==
    bytes[1] + 256 * bytes[2] + 65536 * bytes[3]
      + 16777216 * (IF bytes[4] >= 128 THEN bytes[4] - 256 ELSE bytes[4])

\* a % b of JavaScript: the result has the sign of a
JsRem(a, b) == IF a >= 0 THEN a % b ELSE 0 - ((0 - a) % b)

\* an index of Buffer.subarray: negative values count from the end, and the
\* result is clamped to the buffer
SubarrayIndex(i, length) ==
    IF i < 0 THEN (IF length + i < 0 THEN 0 ELSE length + i)
    ELSE IF i > length THEN length ELSE i

\* buf.subarray(start, end)
subarray(buf, start, end) ==
    SubSeq(buf, SubarrayIndex(start, Len(buf)) + 1, SubarrayIndex(end, Len(buf)))

\* buf.subarray(start)
subarrayFrom(buf, start) == subarray(buf, start, Len(buf))

\* AES-128-ECB stands as a keyed permutation of 16-byte blocks: the bytes of
\* a block in reverse order, each moved by the key
V4AesKeys == {3}

Mirror(i) == 16 * ((i - 1) \div 16) + 16 - ((i - 1) % 16)

aesEncrypt(plain, aesKey) ==
    [i \in 1..Len(plain) |-> ToByte(plain[Mirror(i)] + aesKey)]

\* decipher.update(aesData) ++ decipher.final() with setAutoPadding(false):
\* final() throws when the data is not a whole number of blocks
aesDecrypt(aesData, aesKey) ==
    IF Len(aesData) % 16 # 0 THEN PaddingThrew("final")
    ELSE Unpadded([i \in 1..Len(aesData) |-> ToByte(aesData[Mirror(i)] + 256 - aesKey)])

decryptDatV4(bytes, xorKey, aesKey) ==
    IF Len(bytes) < 15 THEN PaddingThrew("small")
    ELSE LET header == subarray(bytes, 0, 15)
             data == subarrayFrom(bytes, 15)
             aesSize == bytesToInt32(subarray(header, 6, 10))
             xorSize == bytesToInt32(subarray(header, 10, 14))
             remainder == (JsRem(aesSize, 16) + 16) % 16
             alignedAesSize == aesSize + (16 - remainder)
         IN IF alignedAesSize > Len(data) THEN PaddingThrew("aes size")
            ELSE LET aesData == subarray(data, 0, alignedAesSize)
                     decrypted == aesDecrypt(aesData, aesKey)
                     unpadded == IF Len(aesData) > 0
                                 THEN (IF decrypted.threw THEN decrypted
                                       ELSE strictRemovePadding(decrypted.data))
                                 ELSE Unpadded(<<>>)
                     remaining == subarrayFrom(data, alignedAesSize)
                     rawLength == Len(remaining) - xorSize
                     xorData == subarrayFrom(remaining, rawLength)
                 IN IF unpadded.threw THEN unpadded
                    ELSE IF xorSize < 0 \/ xorSize > Len(remaining)
                    THEN PaddingThrew("xor size")
                    ELSE IF xorSize > 0
                    THEN (IF rawLength < 0 THEN PaddingThrew("raw length")
                          ELSE Unpadded(unpadded.data
                                          \o subarray(remaining, 0, rawLength)
                                          \o [i \in 1..Len(xorData) |->
                                                ToByte(BitXor(xorData[i], xorKey))]))
                    ELSE Unpadded(unpadded.data \o remaining)

\* the plaintext blocks a payload is built from
V4BlockKinds == {"data", "pad16", "pad5", "pad1"}

PlainBlock(kind) ==
    IF kind = "data" THEN [i \in 1..16 |-> 100 + i]
    ELSE IF kind = "pad16" THEN Run(16, 16)
    ELSE IF kind = "pad5" THEN [i \in 1..11 |-> 100 + i] \o Run(5, 5)
    ELSE [i \in 1..15 |-> 100 + i] \o <<1>>

PlainBlocks(kinds) ==
    [i \in 1..(16 * Len(kinds)) |-> PlainBlock(kinds[((i - 1) \div 16) + 1])[((i - 1) % 16) + 1]]

V4Containers ==
    {[short |-> TRUE, bytes |-> Run(7, n), payload |-> <<>>, aesSize |-> 0, xorSize |-> 0] :
        n \in {0, 14}}
      \cup
    UNION {UNION {
      {LET payload == aesEncrypt(PlainBlocks(kinds), k) \o [i \in 1..t |-> 200 + i]
       IN [short |-> FALSE,
           bytes |-> V2Signature \o Int32Bytes(a) \o Int32Bytes(x) \o <<0>> \o payload,
           payload |-> payload, aesSize |-> a, xorSize |-> x] :
         a \in V4AesSizes, x \in V4XorSizes, k \in V4AesKeys} :
       kinds \in [1..n -> V4BlockKinds]} : n \in 0..MaxV4Blocks, t \in 0..MaxV4Tail}

DecryptDatV4Call ==
    /\ arg.fn = "decryptDatV4" /\ ~ret.done
    /\ ret' = [done |-> TRUE,
               result |-> decryptDatV4(arg.file.bytes, arg.xorKey, arg.aesKey)]
    /\ UNCHANGED <<arg, cursorVars, imageVars, voiceVars>>

(* ImageDecryptService.decryptImageInternal from the key lookup on: lines  *)
(* 260-304, for a container that resolveDatPath has found                  *)

MaxKeyChars == 17    \* characters in the configured imageAesKey

\* the configured imageAesKey after trim(): `text` stands for its first 16
\* characters, `length` is the number of its characters
ConfiguredKeys ==
    {[text |-> IF n = 0 THEN "" ELSE "configured", length |-> n] : n \in 0..MaxKeyChars}

\* the containers: no signature, the V1 signature, the V2 signature
StoredContainers ==
    {[exists |-> TRUE, bytes |-> b] : b \in {<<7, 8>>, V1Signature, V2Signature}}

\* resolveAesKey(aesKeyRaw)
resolveAesKey(aesKeyRaw) ==
    IF aesKeyRaw.length = 0 THEN NullKey ELSE asciiKey16(aesKeyRaw)

Stored(success, error, written, cached, key) ==
    [done |-> TRUE, success |-> success, error |-> error, outputWritten |-> written,
     resolvedCached |-> cached, aesKey |-> key]

\* v4: whether decryptDatV4 decodes the container with the key it is handed
\* or throws (short file, bad padding); ext: what detectImageExtension and
\* unwrapWxgf make of the decrypted bytes
decryptAndStore(file, aesKeyRaw, v4, ext) ==
    LET aesKey == resolveAesKey(aesKeyRaw)
    IN IF aesKey.threw THEN Stored(FALSE, "Error: key too short", FALSE, FALSE, NullKey)
       ELSE LET route == decryptDatAuto(file, aesKey)
            IN IF route.fn = "throw"
               THEN Stored(FALSE, "Error: no image key", FALSE, FALSE, NullKey)
               ELSE IF route.fn = "decryptDatV4" /\ v4 = "throw"
               THEN Stored(FALSE, "Error: decrypt", FALSE, FALSE, route.key)
               ELSE IF ext = ".hevc" THEN Stored(FALSE, "needs ffmpeg", TRUE, FALSE, route.key)
               ELSE Stored(TRUE, "", TRUE, TRUE, route.key)

DecryptAndStoreCall ==
    /\ arg.fn = "decryptAndStore" /\ ~ret.done
    /\ \E v4 \in {"ok", "throw"}, ext \in {".jpg", ".hevc"} :
          ret' = decryptAndStore(arg.file, arg.imageAesKey, v4, ext)
    /\ UNCHANGED <<arg, cursorVars, imageVars, voiceVars>>

---------------------------------------------------------------------------
(* ChatService.getVoiceDataFromMediaDb: the lookup of one voice message in *)
(* the media databases, one action per query                               *)

\* this.mediaDbsCache: the media databases, in the order they are searched
MediaDbs == <<"media_0.db", "media_1.db">>

\* what the schema discovery of a media database finds: a VoiceInfo table with
\* a data column (usable), and the optional columns and table
VoiceSchemas ==
    [usable : BOOLEAN, chatNameIdColumn : BOOLEAN, timeColumn : BOOLEAN,
     name2IdTable : BOOLEAN]

\* what a voice query may come back with: no row, a row whose blob
\* decodeVoiceBlob cannot read, a row it can read, or an exception
VoiceAnswers == {"none", "undecodable", "row", "throw"}

NoVoice == [db |-> 0, strategy |-> 0]

VoiceLookupStart ==
    [done |-> FALSE, db |-> 1, pc |-> "schema", log |-> <<>>, data |-> NoVoice]

\* where the loop body goes after strategy k (0: after the schema is known)
AfterStrategy_WindowFirst(schema, k) ==
    IF k = 0 /\ schema.timeColumn THEN "s3"
    ELSE IF k = 3 /\ schema.chatNameIdColumn /\ schema.name2IdTable THEN "name2id"
    ELSE IF k \in {1, 3} THEN "s2"
    ELSE "next"

AfterStrategy(schema, k) ==
    IF k = 0 /\ schema.chatNameIdColumn /\ schema.timeColumn /\ schema.name2IdTable
    THEN "name2id"
    ELSE IF k \in {0, 1} /\ schema.timeColumn THEN "s2"
    ELSE IF k = 2 /\ schema.timeColumn THEN "s3"
    ELSE "next"

\* `continue`, the catch of the loop body, or the end of the loop body
NextMediaDb(r) ==
    IF r.db = Len(MediaDbs)
    THEN [r EXCEPT !.done = TRUE, !.pc = "returned"]
    ELSE [r EXCEPT !.db = r.db + 1, !.pc = "schema"]

Goto(r, pc) == IF pc = "next" THEN NextMediaDb(r) ELSE [r EXCEPT !.pc = pc]

\* a voice query of strategy k returned
VoiceQueried(r, k, answer) ==
    LET logged == [r EXCEPT !.log = Append(r.log, [db |-> r.db, strategy |-> k,
                                                    answer |-> answer])]
    IN IF answer = "row"
       THEN [logged EXCEPT !.done = TRUE, !.pc = "returned",
                           !.data = [db |-> r.db, strategy |-> k]]
       ELSE IF answer = "throw" THEN NextMediaDb(logged)
       ELSE Goto(logged, AfterStrategy(arg.schemas[r.db], k))

VoiceLookupAt(pc) == arg.fn = "getVoiceDataFromMediaDb" /\ ~ret.done /\ ret.pc = pc

\* the schema of the database is known: lines 2950-3028
SchemaLoaded ==
    /\ VoiceLookupAt("schema")
    /\ ret' = IF arg.schemas[ret.db].usable
              THEN Goto(ret, AfterStrategy(arg.schemas[ret.db], 0))
              ELSE NextMediaDb(ret)
    /\ UNCHANGED <<arg, cursorVars, imageVars, voiceVars>>

\* the Name2Id query returned: lines 3032-3045
Name2IdQueried(answer) ==
    /\ VoiceLookupAt("name2id")
    /\ ret' = IF answer = "rows" THEN Goto(ret, "s1")
              ELSE IF answer = "throw" THEN NextMediaDb(ret)
              ELSE Goto(ret, AfterStrategy(arg.schemas[ret.db], 1))
    /\ UNCHANGED <<arg, cursorVars, imageVars, voiceVars>>

\* the query by chat_name_id and create_time returned: lines 3045-3063
Strategy1Queried(answer) ==
    /\ VoiceLookupAt("s1")
    /\ ret' = VoiceQueried(ret, 1, answer)
    /\ UNCHANGED <<arg, cursorVars, imageVars, voiceVars>>

\* the query by create_time returned: lines 3065-3082
Strategy2Queried(answer) ==
    /\ VoiceLookupAt("s2")
    /\ ret' = VoiceQueried(ret, 2, answer)
    /\ UNCHANGED <<arg, cursorVars, imageVars, voiceVars>>

\* the query by create_time - 5 .. create_time + 5 returned: lines 3084-3098
Strategy3Queried(answer) ==
    /\ VoiceLookupAt("s3")
    /\ ret' = VoiceQueried(ret, 3, answer)
    /\ UNCHANGED <<arg, cursorVars, imageVars, voiceVars>>

NextVoiceLookup ==
    \/ SchemaLoaded
    \/ \E answer \in {"rows", "none", "throw"} : Name2IdQueried(answer)
    \/ \E answer \in VoiceAnswers : Strategy1Queried(answer)
    \/ \E answer \in VoiceAnswers : Strategy2Queried(answer)
    \/ \E answer \in VoiceAnswers : Strategy3Queried(answer)

---------------------------------------------------------------------------
(* getVoiceDataFromMediaDb over media databases whose contents are given:  *)
(* arg.shards[db][k] is what the query of strategy k comes back with in    *)
(* database db                                                              *)

ShardContents == [1..3 -> VoiceAnswers]

\* schemas with a create_time column, with or without the identity columns
ShardSchemas ==
    {[usable |-> TRUE, chatNameIdColumn |-> c, timeColumn |-> TRUE, name2IdTable |-> c] :
        c \in BOOLEAN}

NextShards ==
    \/ SchemaLoaded
    \/ \E answer \in {"rows", "none", "throw"} : Name2IdQueried(answer)
    \/ Strategy1Queried(arg.shards[ret.db][1])
    \/ Strategy2Queried(arg.shards[ret.db][2])
    \/ Strategy3Queried(arg.shards[ret.db][3])

---------------------------------------------------------------------------
(* ChatService.mediaDbSchemaCache: the schema of each media database over  *)
(* several voice lookups and clearCaches                                   *)

MaxLookups == 2      \* getVoiceDataFromMediaDb calls, and clearCaches calls

ShardIds == 1..Len(MediaDbs)

\* mediaDbSchemaCache is empty; nothing has been looked up
SchemaCacheStart ==
    [done |-> FALSE, pc |-> "idle", db |-> 1, lookups |-> 0, clears |-> 0,
     cache |-> [d \in ShardIds |-> FALSE],        \* mediaDbSchemaCache.has(dbPath)
     discoveries |-> [d \in ShardIds |-> 0],      \* lookups that queried the schema since the last clearCaches
     cleared |-> FALSE]                           \* clearCaches ran and no lookup has started since

SchemaCacheAt(pc) == arg.fn = "mediaDbSchemaCache" /\ ret.pc = pc

\* `continue` or the end of the loop body: the next database, or return
NextShard(r) ==
    IF r.db = Len(MediaDbs) THEN [r EXCEPT !.pc = "idle", !.db = 1]
    ELSE [r EXCEPT !.db = r.db + 1]

\* getVoiceDataFromMediaDb is called: lines 2915-2947
VoiceLookupCalled ==
    /\ SchemaCacheAt("idle") /\ ret.lookups < MaxLookups
    /\ ret' = [ret EXCEPT !.pc = "shard", !.db = 1, !.lookups = @ + 1, !.cleared = FALSE]
    /\ UNCHANGED <<arg, cursorVars, imageVars, voiceVars>>

\* mediaDbSchemaCache.get(dbPath) found the schema: line 2950
SchemaCached ==
    /\ SchemaCacheAt("shard") /\ ret.cache[ret.db]
    /\ ret' = [ret EXCEPT !.pc = "query"]
    /\ UNCHANGED <<arg, cursorVars, imageVars, voiceVars>>

\* it did not: the sqlite_master and table_info queries, lines 2952-3025; a
\* database without a usable VoiceInfo table is left with `continue`, and
\* only a complete schema is stored
SchemaDiscovered ==
    /\ SchemaCacheAt("shard") /\ ~ret.cache[ret.db]
    /\ LET queried == [ret EXCEPT !.discoveries[ret.db] = @ + 1]
       IN ret' = IF arg.usable[ret.db]
                 THEN [queried EXCEPT !.cache[ret.db] = TRUE, !.pc = "query"]
                 ELSE [NextShard(queried) EXCEPT !.pc = IF ret.db = Len(MediaDbs)
                                                        THEN "idle" ELSE "shard"]
    /\ UNCHANGED <<arg, cursorVars, imageVars, voiceVars>>

\* the strategies of the database returned: lines 3028-3100
VoiceSearched(found) ==
    /\ SchemaCacheAt("query")
    /\ ret' = IF found THEN [ret EXCEPT !.pc = "idle", !.db = 1]
              ELSE [NextShard(ret) EXCEPT !.pc = IF ret.db = Len(MediaDbs)
                                                  THEN "idle" ELSE "shard"]
    /\ UNCHANGED <<arg, cursorVars, imageVars, voiceVars>>

\* clearCaches(), lines 2367-2407: it clears the avatar, contact, message,
\* voice, hardlink and emoji caches, and does not touch mediaDbSchemaCache
SchemaCacheCleared ==
    /\ arg.fn = "mediaDbSchemaCache" /\ ret.clears < MaxLookups
    /\ ret' = [ret EXCEPT !.clears = @ + 1, !.cleared = TRUE,
                          !.discoveries = [d \in ShardIds |-> 0]]
    /\ UNCHANGED <<arg, cursorVars, imageVars, voiceVars>>

NextSchemaCache ==
    \/ VoiceLookupCalled
    \/ SchemaCached
    \/ SchemaDiscovered
    \/ \E found \in BOOLEAN : VoiceSearched(found)
    \/ SchemaCacheCleared

(* The public operations of ChatService and ImageDecryptService: their     *)
(* awaited steps, and which of them run inside a try                       *)

MaxPublicCalls == 2  \* public operations called one after the other

Step(name, guarded) == [name |-> name, guarded |-> guarded]

PublicSteps ==
    [getMessages |->
        <<Step("ensureConnected", TRUE), Step("openMessageCursor", TRUE),
          Step("fetchMessageBatch", TRUE)>>,
     getLatestMessages |->
        <<Step("ensureConnected", TRUE), Step("openMessageCursor", TRUE),
          Step("fetchMessageBatch", TRUE), Step("closeMessageCursor", TRUE)>>,
     decryptImage |->
        <<Step("ensureCacheIndexed", FALSE), Step("decryptImageInternal", TRUE)>>,
     resolveCachedImage |->
        <<Step("ensureCacheIndexed", FALSE), Step("findCachedOutput", FALSE)>>,
     getVoiceData |->
        <<Step("getMessageByLocalId", TRUE), Step("getVoiceDataFromMediaDb", TRUE),
          Step("decodeSilkToPcm", TRUE)>>,
     getVoiceTranscript |->
        <<Step("getMessageById", TRUE), Step("getVoiceData", TRUE),
          Step("transcribeWavBuffer", TRUE)>>]

PublicOps == DOMAIN PublicSteps

\* no operation running, cacheIndexed = false, cacheIndexing = null
BoundaryStart ==
    [done |-> FALSE, op |-> "none", step |-> 0, cacheIndexed |-> FALSE,
     cacheIndexing |-> "null", calls |-> <<>>]

CurrentStep == PublicSteps[ret.op][ret.step]

\* the operation completes: with data, with {success: false, error}, or by
\* rejecting
Completed(r, outcome) ==
    [r EXCEPT !.op = "none", !.step = 0,
              !.calls = Append(@, [op |-> r.op, outcome |-> outcome])]

Advance(r) ==
    IF r.step = Len(PublicSteps[r.op]) THEN Completed(r, "data")
    ELSE [r EXCEPT !.step = @ + 1]

\* the step throws: a try around it turns that into a failure result
Fail(r) ==
    IF PublicSteps[r.op][r.step].guarded THEN Completed(r, "failure")
    ELSE Completed(r, "rejected")

PublicCall(op) ==
    /\ arg.fn = "public" /\ ret.op = "none" /\ Len(ret.calls) < MaxPublicCalls
    /\ ret' = [ret EXCEPT !.op = op, !.step = 1]
    /\ UNCHANGED <<arg, cursorVars, imageVars, voiceVars>>

\* `await this.ensureCacheIndexed()` returned, lines 1132-1154; rootsOk: whether
\* getCacheRoot can create the cache root
CacheIndexEnsured(rootsOk) ==
    /\ arg.fn = "public" /\ ret.op # "none" /\ CurrentStep.name = "ensureCacheIndexed"
    /\ ret' = IF ret.cacheIndexed THEN Advance(ret)
              ELSE IF ret.cacheIndexing = "rejected" THEN Fail(ret)
              ELSE IF rootsOk THEN Advance([ret EXCEPT !.cacheIndexed = TRUE])
              ELSE Fail([ret EXCEPT !.cacheIndexing = "rejected"])
    /\ UNCHANGED <<arg, cursorVars, imageVars, voiceVars>>

\* any other awaited step returned or threw
StepReturned(ok) ==
    /\ arg.fn = "public" /\ ret.op # "none" /\ CurrentStep.name # "ensureCacheIndexed"
    /\ ret' = IF ok THEN Advance(ret) ELSE Fail(ret)
    /\ UNCHANGED <<arg, cursorVars, imageVars, voiceVars>>

NextBoundary ==
    \/ \E op \in PublicOps : PublicCall(op)
    \/ \E rootsOk \in BOOLEAN : CacheIndexEnsured(rootsOk)
    \/ \E ok \in BOOLEAN : StepReturned(ok)

---------------------------------------------------------------------------
(* ImageDecryptService.convertHevcToJpg: the ffmpeg child process of one   *)
(* decryptImage request, one action per event                              *)

MaxChunks == 4       \* data events on each of the process's output pipes

\* pc: before the spawn, while the promise is unsettled, after resolve(), and
\* after decryptImage has returned; pendingHeld: the request's entry in
\* `pending`
HevcStart ==
    [done |-> FALSE, pc |-> "idle", chunks |-> 0, errChunks |-> 0, exited |-> FALSE,
     result |-> "none", pendingHeld |-> FALSE]

HevcAt(pcs) == arg.fn = "convertHevcToJpg" /\ ret.pc \in pcs

\* decryptImage has set `pending`; unwrapWxgf calls convertHevcToJpg, which
\* spawns ffmpeg and writes the stream to its stdin: lines 1635-1679
HevcSpawned ==
    /\ HevcAt({"idle"})
    /\ ret' = [ret EXCEPT !.pc = "running", !.pendingHeld = TRUE]
    /\ UNCHANGED <<arg, cursorVars, imageVars, voiceVars>>

\* proc.stdout.on('data')
StdoutData ==
    /\ HevcAt({"running", "resolved", "returned"}) /\ ~ret.exited
    /\ ret.chunks < MaxChunks
    /\ ret' = [ret EXCEPT !.chunks = @ + 1]
    /\ UNCHANGED <<arg, cursorVars, imageVars, voiceVars>>

\* proc.stderr.on('data')
StderrData ==
    /\ HevcAt({"running", "resolved", "returned"}) /\ ~ret.exited
    /\ ret.errChunks < MaxChunks
    /\ ret' = [ret EXCEPT !.errChunks = @ + 1]
    /\ UNCHANGED <<arg, cursorVars, imageVars, voiceVars>>

\* proc.on('close'): lines 1659-1668; a second resolve() has no effect
ProcClosed(code) ==
    /\ HevcAt({"running", "resolved", "returned"}) /\ ~ret.exited
    /\ ret' = IF ret.pc = "running"
              THEN [ret EXCEPT !.exited = TRUE, !.pc = "resolved",
                       !.result = IF code = 0 /\ ret.chunks > 0 THEN "jpg" ELSE "null"]
              ELSE [ret EXCEPT !.exited = TRUE]
    /\ UNCHANGED <<arg, cursorVars, imageVars, voiceVars>>

\* proc.on('error'): lines 1670-1673
ProcError ==
    /\ HevcAt({"running"}) /\ ~ret.exited
    /\ ret' = [ret EXCEPT !.pc = "resolved", !.result = "null"]
    /\ UNCHANGED <<arg, cursorVars, imageVars, voiceVars>>

\* `await this.convertHevcToJpg` returned: decryptImageInternal runs to its
\* end and decryptImage's `finally` deletes the `pending` entry
ConversionAwaited ==
    /\ HevcAt({"resolved"})
    /\ ret' = [ret EXCEPT !.pc = "returned", !.done = TRUE, !.pendingHeld = FALSE]
    /\ UNCHANGED <<arg, cursorVars, imageVars, voiceVars>>

NextHevc ==
    \/ HevcSpawned
    \/ StdoutData
    \/ StderrData
    \/ \E code \in {0, 1} : ProcClosed(code)
    \/ ProcError
    \/ ConversionAwaited

---------------------------------------------------------------------------
(* The files the operations write, create and delete: a directory is a     *)
(* root (the account directory of the source data, the configured          *)
(* cachePath, Documents/WeFlow, Documents/WeFlowData, Electron's userData) *)
(* and the name of the directory under it                                  *)

Dir(root, name) == [root |-> root, name |-> name]

\* where the containers and databases of the account are read from
AccountDirs == {Dir("account", "msg/attach"), Dir("account", "db_storage")}

\* configService.get('cachePath'), else Documents/WeFlow
CacheBase(configured) == IF configured THEN "cachePath" ELSE "documents/WeFlow"

getCacheRoot(configured) == Dir(CacheBase(configured), "Images")

\* getAllCacheRoots, before the roots that do not exist are filtered out
getAllCacheRoots(configured) ==
    {getCacheRoot(configured)}
      \cup (IF configured THEN {Dir("cachePath", "Images"), Dir("cachePath", "images")}
            ELSE {})
      \cup {Dir("documents/WeFlow", "Images"), Dir("documents/WeFlow", "images"),
            Dir("documents/WeFlowData", "Images")}

CacheRoots == getAllCacheRoots(TRUE) \cup getAllCacheRoots(FALSE)

getVoiceCacheDir(configured) == Dir(CacheBase(configured), "Voices")

getEmojiCacheDir(configured) == Dir(CacheBase(configured), "Emojis")

\* writeLog: join(app.getPath('userData'), 'logs')
LogDir == Dir("userData", "logs")

\* the directory of getCacheOutputPathFromDat(datPath, ext, sessionId):
\* join(getCacheRoot(), contactDir, timeDir), whatever directory datPath is in
OutputDir_NextToContainer(datDir, configured) == datDir

OutputDir(datDir, configured) == getCacheRoot(configured)

Effect(op, kind, dir) == [op |-> op, kind |-> kind, dir |-> dir]

\* logInfo / logError: nothing unless logEnabled is configured
Logged(op, config) ==
    IF config.logEnabled THEN {Effect(op, "mkdir", LogDir), Effect(op, "write", LogDir)}
    ELSE {}

\* findCachedOutputInDir under an existing cache root: the leftover .hevc
\* outputs of the key are unlinked
HevcSwept(op, config, root) ==
    IF root \in getAllCacheRoots(config.cachePath) THEN {Effect(op, "delete", root)} ELSE {}

EffectsStart == [done |-> FALSE, effects |-> {}]

Added(effects) == [ret EXCEPT !.effects = @ \cup effects]

\* decryptImage: findCachedOutput (228), getCacheOutputPathFromDat (279) and
\* writeFile (280) on a container of the account directory
DecryptImageRan(datDir, root) ==
    /\ arg.fn = "effects"
    /\ ret' = Added(Logged("decryptImage", arg.config)
                   \cup HevcSwept("decryptImage", arg.config, root)
                   \cup {Effect("decryptImage", "mkdir", getCacheRoot(arg.config.cachePath)),
                         Effect("decryptImage", "mkdir", OutputDir(datDir, arg.config.cachePath)),
                         Effect("decryptImage", "write", OutputDir(datDir, arg.config.cachePath))})
    /\ UNCHANGED <<arg, cursorVars, imageVars, voiceVars>>

\* resolveCachedImage: findCachedOutput (128)
ResolveCachedImageRan(root) ==
    /\ arg.fn = "effects"
    /\ ret' = Added(Logged("resolveCachedImage", arg.config)
                   \cup HevcSwept("resolveCachedImage", arg.config, root)
                   \cup {Effect("resolveCachedImage", "mkdir", getCacheRoot(arg.config.cachePath))})
    /\ UNCHANGED <<arg, cursorVars, imageVars, voiceVars>>

\* getVoiceData: cacheVoiceWavToFile
GetVoiceDataRan ==
    /\ arg.fn = "effects"
    /\ ret' = Added({Effect("getVoiceData", "mkdir", getVoiceCacheDir(arg.config.cachePath)),
                  Effect("getVoiceData", "write", getVoiceCacheDir(arg.config.cachePath))})
    /\ UNCHANGED <<arg, cursorVars, imageVars, voiceVars>>

\* clearCache: rm of the files under <cachePath>/Images or Documents/WeFlow/Images
ClearCacheRan ==
    /\ arg.fn = "effects"
    /\ ret' = Added({Effect("clearCache", "delete", Dir(CacheBase(arg.config.cachePath), "Images"))})
    /\ UNCHANGED <<arg, cursorVars, imageVars, voiceVars>>

\* clearCaches: rmSync of the emoji cache directory
ClearCachesRan ==
    /\ arg.fn = "effects"
    /\ ret' = Added({Effect("clearCaches", "delete", getEmojiCacheDir(arg.config.cachePath))})
    /\ UNCHANGED <<arg, cursorVars, imageVars, voiceVars>>

\* downloadEmoji: mkdirSync and writeFileSync in the emoji cache directory
EmojiDownloaded ==
    /\ arg.fn = "effects"
    /\ ret' = Added({Effect("downloadEmoji", "mkdir", getEmojiCacheDir(arg.config.cachePath)),
                  Effect("downloadEmoji", "write", getEmojiCacheDir(arg.config.cachePath))})
    /\ UNCHANGED <<arg, cursorVars, imageVars, voiceVars>>

NextEffects ==
    \/ \E datDir \in AccountDirs, root \in CacheRoots : DecryptImageRan(datDir, root)
    \/ \E root \in CacheRoots : ResolveCachedImageRan(root)
    \/ GetVoiceDataRan
    \/ ClearCacheRan
    \/ ClearCachesRan
    \/ EmojiDownloaded

---------------------------------------------------------------------------
(* ChatService.mapRowsToMessages: the isSend field *)

MaxRows == 2         \* rows in a mapped batch

\* JavaScript values a row field or isSend can hold.
Undefined == [kind |-> "undefined", value |-> 0, text |-> ""]
JsNull == [kind |-> "null", value |-> 0, text |-> ""]
NaN == [kind |-> "NaN", value |-> 0, text |-> ""]
Num(n) == [kind |-> "number", value |-> n, text |-> ""]
Str(s) == [kind |-> "string", value |-> 0, text |-> s]

\* An account identity: wxid_<base>, optionally upper-cased, optionally with
\* the _xxxx suffix of an account directory name.  "" is the empty string.
NoIdentity == [base |-> "", upper |-> FALSE, suffix |-> FALSE]
Identities == [base : {"me", "you"}, upper : BOOLEAN, suffix : BOOLEAN]

toLowerCase(id) == [id EXCEPT !.upper = FALSE]

\* /^(wxid_[^_]+)/i keeps the part before the second underscore.
cleanAccountDirName(id) == IF id = NoIdentity THEN id ELSE [id EXCEPT !.suffix = FALSE]

\* A column of a row: the name it is stored under and its value.
IsSendColumns == {"is_send", "IS_SEND", "none"}
IsSendValues == {JsNull, Num(0), Num(1), Str("0"), Str("1"), Str("x")}
MessageRows ==
    [isSendColumn : IsSendColumns, isSendValue : IsSendValues,
     sender : Identities \cup {NoIdentity}]

\* getRowField: the first listed key, exact or case-insensitive, whose value
\* is neither undefined nor null; undefined when there is none.
getRowField(column, value) ==
    IF column # "none" /\ value # JsNull THEN value ELSE Undefined

parseInt(raw) ==
    CASE raw.kind = "number" -> raw
      [] raw.kind = "string" /\ raw.text = "0" -> Num(0)
      [] raw.kind = "string" /\ raw.text = "1" -> Num(1)
      [] OTHER -> NaN

\* The variant the source does not have: an absent flag read as null.
IsSendOf_AbsentIsNull(isSendRaw) ==
    IF isSendRaw \in {JsNull, Undefined} THEN JsNull ELSE parseInt(isSendRaw)

\* let isSend = isSendRaw === null ? null : parseInt(isSendRaw, 10)
IsSendOf(isSendRaw) ==
    IF isSendRaw = JsNull THEN JsNull ELSE parseInt(isSendRaw)

\* getRowField(row, [sender columns]) || null: an empty sender counts as none.
SenderOf(row) == row.sender

mapRowToMessage(row, myWxid) ==
    LET cleanedWxid == cleanAccountDirName(myWxid)
        myWxidLower == toLowerCase(myWxid)
        cleanedWxidLower == toLowerCase(cleanedWxid)
        isSend == IsSendOf(getRowField(row.isSendColumn, row.isSendValue))
        senderUsername == SenderOf(row)
        senderLower == toLowerCase(senderUsername)
        expectedIsSend ==
            IF senderLower = myWxidLower \/ senderLower = cleanedWxidLower
            THEN Num(1) ELSE Num(0)
    IN  [senderUsername |-> senderUsername,
         isSend |-> IF /\ senderUsername # NoIdentity
                       /\ (myWxidLower # NoIdentity \/ cleanedWxidLower # NoIdentity)
                       /\ isSend = JsNull
                    THEN expectedIsSend ELSE isSend]

mapRowsToMessages(rows, myWxid) ==
    [done |-> TRUE, messages |-> [i \in 1..Len(rows) |-> mapRowToMessage(rows[i], myWxid)]]

MapRowsToMessagesCall ==
    /\ arg.fn = "mapRowsToMessages" /\ ~ret.done
    /\ ret' = mapRowsToMessages(arg.rows, arg.myWxid)
    /\ UNCHANGED <<arg, cursorVars, imageVars, voiceVars>>

---------------------------------------------------------------------------
(* ChatService: the contact (avatar) cache and its three readers, one action *)
(* per read of one username                                                 *)

Usernames == {"wxid_a", "wxid_b"}

HexAvatar == "data:image/jpeg;base64,ffd8ffe0"
AvatarUrls == {"", "https://wx.qlogo.cn/a/132", "data:image/jpeg;base64,/9j/4AAQ", HexAvatar}

\* avatarUrl.includes('base64,ffd8')
IncludesHexHeader(url) == url = HexAvatar

\* An entry of avatarCache; fresh: now - updatedAt < avatarCacheTtlMs.
NoContact == [present |-> FALSE, avatarUrl |-> "", fresh |-> FALSE]
ContactEntry(url) == [present |-> TRUE, avatarUrl |-> url, fresh |-> TRUE]
ContactEntries ==
    {NoContact} \cup [present : {TRUE}, avatarUrl : AvatarUrls, fresh : BOOLEAN]

\* const isValidAvatar = cached?.avatarUrl && !cached.avatarUrl.includes('base64,ffd8')
isValidAvatar(cached) ==
    cached.present /\ cached.avatarUrl # "" /\ ~IncludesHexHeader(cached.avatarUrl)

NoRead == [op |-> "none", username |-> "", cached |-> NoContact, hit |-> FALSE, avatarUrl |-> ""]

ContactsStart(persisted) == [done |-> FALSE, avatarCache |-> persisted, read |-> NoRead]

Read(op, username, hit, avatarUrl) ==
    [op |-> op, username |-> username, cached |-> ret.avatarCache[username],
     hit |-> hit, avatarUrl |-> avatarUrl]

\* getSessions, lines 304-311: the row of one session
GetSessionsRow(username) ==
    /\ arg.fn = "contacts"
    /\ LET cached == ret.avatarCache[username]
       IN  ret' = [ret EXCEPT !.read = Read("getSessions", username, cached.present,
                                             IF cached.present THEN cached.avatarUrl ELSE "")]
    /\ UNCHANGED <<arg, cursorVars, imageVars, voiceVars>>

\* the test of lines 365 and 2283
CacheHit(cached) == cached.present /\ cached.fresh /\ isValidAvatar(cached)

\* enrichSessionsContactInfo, lines 359-401, for one username; fetched: the
\* URL wcdbService.getAvatarUrls or head_image.db gives for it
EnrichSessionsContactInfo(username, fetched) ==
    /\ arg.fn = "contacts"
    /\ LET cached == ret.avatarCache[username]
       IN  ret' = IF CacheHit(cached)
                  THEN [ret EXCEPT !.read = Read("enrichSessionsContactInfo", username,
                                                 TRUE, cached.avatarUrl)]
                  ELSE [ret EXCEPT !.read = Read("enrichSessionsContactInfo", username,
                                                 FALSE, fetched),
                                   !.avatarCache[username] = ContactEntry(fetched)]
    /\ UNCHANGED <<arg, cursorVars, imageVars, voiceVars>>

\* getContactAvatar, lines 2275-2301
GetContactAvatar(username, fetched) ==
    /\ arg.fn = "contacts"
    /\ LET cached == ret.avatarCache[username]
       IN  ret' = IF CacheHit(cached)
                  THEN [ret EXCEPT !.read = Read("getContactAvatar", username,
                                                 TRUE, cached.avatarUrl)]
                  ELSE [ret EXCEPT !.read = Read("getContactAvatar", username,
                                                 FALSE, fetched),
                                   !.avatarCache[username] = ContactEntry(fetched)]
    /\ UNCHANGED <<arg, cursorVars, imageVars, voiceVars>>

\* avatarCacheTtlMs passes without a refresh
AvatarTtlElapsed ==
    /\ arg.fn = "contacts"
    /\ \E u \in Usernames : ret.avatarCache[u].present /\ ret.avatarCache[u].fresh
    /\ ret' = [ret EXCEPT !.avatarCache =
                   [u \in Usernames |-> [ret.avatarCache[u] EXCEPT !.fresh = FALSE]]]
    /\ UNCHANGED <<arg, cursorVars, imageVars, voiceVars>>

NextContacts ==
    \/ \E u \in Usernames : GetSessionsRow(u)
    \/ \E u \in Usernames, fetched \in AvatarUrls : EnrichSessionsContactInfo(u, fetched)
    \/ \E u \in Usernames, fetched \in AvatarUrls : GetContactAvatar(u, fetched)
    \/ AvatarTtlElapsed

---------------------------------------------------------------------------
(* ChatService.cacheVoiceWav and cacheVoiceTranscript: the size-bounded      *)
(* in-memory voice caches.  A Map is the sequence of its keys in insertion   *)
(* order; cache keys are numbered in the order they are first used.          *)

voiceCacheMaxEntries == 50

MaxVoiceKey == 52       \* distinct cache keys
MaxVoiceInserts == 53   \* insertions of a key that is not in the cache

VoiceCacheKeys == 1..MaxVoiceKey

Keys(m) == {m[i] : i \in 1..Len(m)}

\* Map.prototype.set: a key that is present keeps its place, a new key goes last
MapSet(m, key) == IF key \in Keys(m) THEN m ELSE Append(m, key)

\* The variant that spares the oldest key and deletes the next one.
cacheVoiceWav_SparesOldest(m, key) ==
    LET s == MapSet(m, key)
    IN  IF Len(s) > voiceCacheMaxEntries THEN <<Head(s)>> \o Tail(Tail(s)) ELSE s

\* lines 3451-3457: set, then delete keys().next().value when over capacity
cacheVoiceWav(m, key) ==
    LET s == MapSet(m, key)
    IN  IF Len(s) > voiceCacheMaxEntries THEN Tail(s) ELSE s

\* lines 3459-3465
cacheVoiceTranscript(m, key) ==
    LET s == MapSet(m, key)
    IN  IF Len(s) > voiceCacheMaxEntries THEN Tail(s) ELSE s

NoInsert == [key |-> 0, wasPresent |-> FALSE, sizeBefore |-> 0, gone |-> {}, goneBorn |-> {}]

\* cache: the Map; inserts: insertions of an absent key so far; born: for each
\* key present, the number of the insertion that brought it in; used: distinct
\* keys so far
VoiceCacheStart ==
    [done |-> FALSE, cache |-> <<>>, born |-> [k \in VoiceCacheKeys |-> 0],
     inserts |-> 0, used |-> 0, last |-> NoInsert]

Inserted(r, key, after) ==
    LET gone == (Keys(r.cache) \cup {key}) \ Keys(after)
        stamp == [k \in VoiceCacheKeys |->
                     IF k = key /\ key \notin Keys(r.cache) THEN r.inserts + 1 ELSE r.born[k]]
    IN  [r EXCEPT !.cache = after,
                  !.inserts = IF key \in Keys(r.cache) THEN @ ELSE @ + 1,
                  !.used = IF key > @ THEN key ELSE @,
                  !.born = [k \in VoiceCacheKeys |-> IF k \in gone THEN 0 ELSE stamp[k]],
                  !.last = [key |-> key, wasPresent |-> key \in Keys(r.cache),
                            sizeBefore |-> Len(r.cache), gone |-> gone,
                            goneBorn |-> {stamp[k] : k \in gone}]]

CacheVoiceWav(key) ==
    /\ arg.fn = "voiceCache" /\ arg.cache = "voiceWavCache"
    /\ key <= ret.used + 1
    /\ key \in Keys(ret.cache) \/ ret.inserts < MaxVoiceInserts
    /\ ret' = Inserted(ret, key, cacheVoiceWav(ret.cache, key))
    /\ UNCHANGED <<arg, cursorVars, imageVars, voiceVars>>

CacheVoiceTranscript(key) ==
    /\ arg.fn = "voiceCache" /\ arg.cache = "voiceTranscriptCache"
    /\ key <= ret.used + 1
    /\ key \in Keys(ret.cache) \/ ret.inserts < MaxVoiceInserts
    /\ ret' = Inserted(ret, key, cacheVoiceTranscript(ret.cache, key))
    /\ UNCHANGED <<arg, cursorVars, imageVars, voiceVars>>

NextVoiceCache ==
    \/ \E key \in VoiceCacheKeys : CacheVoiceWav(key)
    \/ \E key \in VoiceCacheKeys : CacheVoiceTranscript(key)

---------------------------------------------------------------------------
(* ChatService.getVoiceData and resolveVoiceCache: the keys under which a    *)
(* decoded voice message is stored in voiceWavCache and looked up again      *)

VoiceSessions == {"s1", "s2"}

\* the msgId strings callers pass; "x" is no number
VoiceMsgIds == {"7", "100", "200", "x"}

\* parseInt(msgId, 10); -1 stands for NaN
ParseInt(msgId) ==
    CASE msgId = "7" -> 7 [] msgId = "100" -> 100 [] msgId = "200" -> 200 [] OTHER -> -1

\* `${n}` of a number
Decimal(n) ==
    CASE n = 7 -> "7" [] n = 100 -> "100" [] n = 200 -> "200" [] OTHER -> "NaN"

\* the create_time of the message with a local id, in either session
MessageTime(localId) ==
    CASE localId = 7 -> 100 [] localId = 100 -> 200 [] localId = 200 -> 200 [] OTHER -> 0

\* `${sessionId}_${suffix}`
KeyString(sessionId, suffix) == <<sessionId, "_", suffix>>

\* lines 3443-3449; createTime = 0 for an absent one
getVoiceCacheKey(sessionId, msgId, createTime) ==
    IF createTime # 0 THEN KeyString(sessionId, Decimal(createTime))
    ELSE KeyString(sessionId, msgId)

WavKeys == {KeyString(s, x) : s \in VoiceSessions, x \in {"7", "100", "200"}}

\* the WAV decoded from the voice of a session's message of a create_time
Wav(sessionId, createTime) == [session |-> sessionId, createTime |-> createTime]
NoWav == [session |-> "", createTime |-> 0]

NoVoiceCall == [op |-> "none", sessionId |-> "", msgId |-> "", success |-> FALSE,
                hasCache |-> FALSE, data |-> NoWav]

\* cache: the keys of voiceWavCache in insertion order; wav: the buffer of
\* each key; files: the <key>.wav files of the voice cache directory
VoiceKeysStart ==
    [done |-> FALSE, cache |-> <<>>, wav |-> [k \in WavKeys |-> NoWav], files |-> {},
     last |-> NoVoiceCall]

\* this.cacheVoiceWav(cacheKey, wavData) on the Map and its buffers
WavCached(r, cacheKey, wavData) ==
    LET after == cacheVoiceWav(r.cache, cacheKey)
    IN  [r EXCEPT !.cache = after,
                  !.wav = [k \in WavKeys |->
                              IF k \notin Keys(after) THEN NoWav
                              ELSE IF k = cacheKey THEN wavData ELSE r.wav[k]]]

VoiceReturned(r, sessionId, msgId, success, data) ==
    [r EXCEPT !.last = [op |-> "getVoiceData", sessionId |-> sessionId, msgId |-> msgId,
                        success |-> success, hasCache |-> FALSE, data |-> data]]

\* getVoiceData(sessionId, msgId, createTime), lines 2781-2885.  found: whether
\* getMessageByLocalId finds the message; decoded: whether the media databases
\* hold the voice and silk-wasm decodes it
getVoiceData(r, sessionId, msgId, createTime, found, decoded) ==
    LET localId == ParseInt(msgId)
        msgCreateTime == IF createTime # 0 THEN createTime
                         ELSE IF found THEN MessageTime(localId) ELSE 0
        cacheKey == KeyString(sessionId, Decimal(msgCreateTime))
        wavData == Wav(sessionId, msgCreateTime)
    IN  IF localId = -1 THEN VoiceReturned(r, sessionId, msgId, FALSE, NoWav)
        ELSE IF msgCreateTime = 0 THEN VoiceReturned(r, sessionId, msgId, FALSE, NoWav)
        ELSE IF cacheKey \in Keys(r.cache)
        THEN VoiceReturned(r, sessionId, msgId, TRUE, r.wav[cacheKey])
        ELSE IF cacheKey \in r.files
        THEN VoiceReturned(WavCached(r, cacheKey, wavData), sessionId, msgId, TRUE, wavData)
        ELSE IF ~decoded THEN VoiceReturned(r, sessionId, msgId, FALSE, NoWav)
        ELSE VoiceReturned([WavCached(r, cacheKey, wavData) EXCEPT !.files = @ \cup {cacheKey}],
                           sessionId, msgId, TRUE, wavData)

\* resolveVoiceCache(sessionId, msgId), lines 3113-3130
resolveVoiceCache(r, sessionId, msgId) ==
    LET cacheKey == getVoiceCacheKey(sessionId, msgId, 0)
    IN  IF cacheKey \in Keys(r.cache)
        THEN [success |-> TRUE, hasCache |-> TRUE, data |-> r.wav[cacheKey]]
        ELSE [success |-> TRUE, hasCache |-> FALSE, data |-> NoWav]

GetVoiceData(sessionId, msgId, passTime, found, decoded) ==
    /\ arg.fn = "voiceKeys"
    /\ ret' = getVoiceData(ret, sessionId, msgId,
                           IF passTime THEN MessageTime(ParseInt(msgId)) ELSE 0,
                           found, decoded)
    /\ UNCHANGED <<arg, cursorVars, imageVars, voiceVars>>

ResolveVoiceCache(sessionId, msgId) ==
    /\ arg.fn = "voiceKeys"
    /\ LET res == resolveVoiceCache(ret, sessionId, msgId)
       IN  ret' = [ret EXCEPT !.last = [op |-> "resolveVoiceCache", sessionId |-> sessionId,
                                        msgId |-> msgId, success |-> res.success,
                                        hasCache |-> res.hasCache, data |-> res.data]]
    /\ UNCHANGED <<arg, cursorVars, imageVars, voiceVars>>

\* clearCaches(), line 2380: voiceWavCache.clear(); the files stay
VoiceWavCleared ==
    /\ arg.fn = "voiceKeys"
    /\ ret' = [ret EXCEPT !.cache = <<>>, !.wav = [k \in WavKeys |-> NoWav],
                          !.last = NoVoiceCall]
    /\ UNCHANGED <<arg, cursorVars, imageVars, voiceVars>>

NextVoiceKeys ==
    \/ \E sessionId \in VoiceSessions, msgId \in VoiceMsgIds, passTime, found, decoded \in BOOLEAN :
          GetVoiceData(sessionId, msgId, passTime, found, decoded)
    \/ \E sessionId \in VoiceSessions, msgId \in VoiceMsgIds : ResolveVoiceCache(sessionId, msgId)
    \/ VoiceWavCleared

---------------------------------------------------------------------------
(* ChatService.mapRowsToMessages: content, parsedContent and the sub-fields *)

MaxContentRows == 2  \* rows in a batch whose contents are mapped

\* What a content column of a row holds: nothing, a value that is neither a
\* string nor bytes, a plain string, the XML of the row's type, or a zstd
\* frame (of that XML, or one that fzstd cannot decompress).
RawContents == {"absent", "object", "text", "xml", "zstd_xml", "zstd_bad"}

\* What the local_type column holds: nothing, a string that is no number, or
\* a number.  244813135921 is the type of a quote.
RawLocalTypes == {"absent", "x", "3", "34", "47", "49", "244813135921"}

ContentRows ==
    {row \in [compressContent : {"absent", "zstd_bad"},
              messageContent : {"absent", "object", "text", "xml"},
              localType : RawLocalTypes \ {"absent"},
              packedInfo : BOOLEAN] :
        row.packedInfo => (row.localType = "3" /\ row.messageContent = "xml"
                             /\ row.compressContent = "absent")}
      \cup {[compressContent |-> "absent", messageContent |-> "xml",
             localType |-> "absent", packedInfo |-> FALSE],
            [compressContent |-> "zstd_xml", messageContent |-> "absent",
             localType |-> "47", packedInfo |-> FALSE]}

\* decodeMaybeCompressed and decodeBinaryContent: the decoded string, by kind.
\* "" is the empty string; "garbage" is the text of bytes that are no message:
\* when fzstd.decompress throws, the frame itself is decoded as UTF-8 (or the
\* fallback String(raw) is returned).
decodeMaybeCompressed(raw) ==
    CASE raw \in {"absent", "object"} -> ""
      [] raw = "text" -> "text"
      [] raw \in {"xml", "zstd_xml"} -> "xml"
      [] OTHER -> "garbage"

decodeMessageContent(messageContent, compressContent) ==
    LET content == decodeMaybeCompressed(compressContent)
    IN IF content = "" THEN decodeMaybeCompressed(messageContent) ELSE content

\* getRowInt(row, [local_type columns], 1)
LocalTypeOf(raw) == IF raw \in {"absent", "x"} THEN "1" ELSE raw

\* the labels, in ASCII: [text] [image] [voice] [sticker] [link] [quote] and
\* the label of every other type, [message]
getMessageTypeLabel(localType) ==
    CASE localType = "1" -> "[text]"
      [] localType = "3" -> "[image]"
      [] localType = "34" -> "[voice]"
      [] localType = "47" -> "[sticker]"
      [] localType = "49" -> "[link]"
      [] localType = "244813135921" -> "[quote]"
      [] OTHER -> "[message]"

\* parseType49(content): the title with the prefix of its <type>, or, without
\* a title and a known <type>, [message]
parseType49(content) == IF content = "xml" THEN "[link] title" ELSE "[message]"

\* parseMessageContent(content, localType), for contents of up to 200 characters
parseMessageContent(content, localType) ==
    IF content = "" THEN getMessageTypeLabel(localType)
    ELSE CASE localType = "1" -> content
           [] localType = "3" -> "[image]"
           [] localType = "34" -> "[voice message]"
           [] localType = "47" -> "[sticker]"
           [] localType = "49" -> parseType49(content)
           [] localType = "244813135921" -> IF content = "xml" THEN "title" ELSE "[quote]"
           [] OTHER -> IF content = "xml" THEN "title" ELSE content

\* the sub-fields of a record that are not undefined: every parser answers
\* with undefined fields for a content that has none of its tags
SubFields(row, content, localType) ==
    IF content = "" THEN {}
    ELSE CASE localType = "47" ->
                 IF content = "xml" THEN {"emojiCdnUrl", "emojiMd5"} ELSE {}
           [] localType = "3" ->
                 (IF content = "xml" THEN {"imageMd5", "aesKey", "encrypVer", "cdnThumbUrl"}
                  ELSE {})
                   \cup (IF row.packedInfo THEN {"imageDatName"} ELSE {})
           [] localType = "34" ->
                 IF content = "xml" THEN {"voiceDurationSeconds"} ELSE {}
           [] localType = "49" ->
                 IF content = "xml" THEN {"xmlType", "linkTitle", "linkUrl"} ELSE {}
           [] localType = "244813135921" ->
                 IF content = "xml" THEN {"quotedContent", "quotedSender"} ELSE {}
           [] OTHER -> {}

\* the record mapRowsToMessages pushes for a row
ContentRecord(row) ==
    LET content == decodeMessageContent(row.messageContent, row.compressContent)
        localType == LocalTypeOf(row.localType)
    IN [localType |-> localType,
        rawContent |-> content,
        parsedContent |-> parseMessageContent(content, localType),
        defined |-> SubFields(row, content, localType)]

\* the loop of mapRowsToMessages: messages.push(...) for each row in turn
RECURSIVE PushRecords(_, _)
PushRecords(messages, rows) ==
    IF rows = <<>> THEN messages
    ELSE PushRecords(Append(messages, ContentRecord(Head(rows))), Tail(rows))

MapRowContentsCall ==
    /\ arg.fn = "mapRowContents" /\ ~ret.done
    /\ ret' = [done |-> TRUE, messages |-> PushRecords(<<>>, arg.rows)]
    /\ UNCHANGED <<arg, cursorVars, imageVars, voiceVars>>

(* ImageDecryptService: names and paths.  A file name is a base, a variant *)
(* suffix and an extension ("0a1b_t.dat" is base "0a1b", suffix "_t",      *)
(* extension ".dat"); an image name is a base and a suffix.                *)

NoPath == [base |-> "", suffix |-> "", ext |-> ""]
DatFile(base, suffix) == [base |-> base, suffix |-> suffix, ext |-> ".dat"]

NoName == [base |-> "", hex |-> FALSE, suffix |-> ""]
Md5Name(base) == [base |-> base, hex |-> TRUE, suffix |-> ""]

\* /^[a-fA-F0-9]{16,32}$/.test(value)
looksLikeMd5(value) == value.hex /\ value.suffix = ""

\* fileName.includes('.t.dat') || fileName.includes('_t.dat')
isThumbnailDat(file) == file.ext = ".dat" /\ file.suffix \in {".t", "_t"}

\* /[._][a-z]$/.test(baseLower)
hasXVariant(file) == file.suffix \in {".t", "_t", "_h", "_c"}

isThumbnailPath(filePath) ==
    \/ isThumbnailDat(filePath)
    \/ filePath.suffix \in {"_t", "_thumb"}

isHdPath(filePath) == filePath.suffix \in {"_hd", "_h"}

isImageFile(filePath) == filePath.ext \in {".gif", ".png", ".jpg", ".jpeg", ".webp"}

\* strips the extension and the one-letter variant suffixes
normalizeDatBase(name) == IF hasXVariant(name) THEN [name EXCEPT !.suffix = ""] ELSE name

isNonThumbnailVariantDat(datPath) ==
    datPath.ext = ".dat" /\ ~isThumbnailDat(datPath) /\ hasXVariant(datPath)

getCacheOutputPathFromDat(datPath, ext) ==
    [base |-> normalizeDatBase(datPath).base,
     suffix |-> IF isThumbnailDat(datPath) THEN "_thumb" ELSE "_hd",
     ext |-> ext]

(* ImageDecryptService.resolveDatPath *)

Lookup(kind, name) == [kind |-> kind, name |-> name]
Resolved(path, lookups, writes) == [path |-> path, lookups |-> lookups, writes |-> writes]

\* cacheDatPath(accountDir, datName, datPath)
cacheDatPath(datName, datPath) ==
    {[map |-> "dat", name |-> datName, path |-> datPath],
     [map |-> "dat", name |-> normalizeDatBase(datName), path |-> datPath]}

HardlinkVerdict_SkipsThumbnail(hardlinkPath, allowThumbnail) ==
    IF hardlinkPath = NoPath THEN "miss"
    ELSE IF allowThumbnail \/ ~isThumbnailPath(hardlinkPath) THEN "hit"
    ELSE "miss"

\* what resolveDatPath does with the answer of a hardlink lookup
HardlinkVerdict(hardlinkPath, allowThumbnail) ==
    IF hardlinkPath = NoPath THEN "miss"
    ELSE IF allowThumbnail \/ ~isThumbnailPath(hardlinkPath) THEN "hit"
    ELSE "null"

\* hardlink: name -> what resolveHardlinkPath answers; cached: the entry of
\* resolvedCache for imageDatName if its file exists; found: name -> what
\* searchDatFile answers.  The result carries the lookups made, in order,
\* and the cache entries written.
resolveDatPath(hardlink, cached, found, imageMd5, imageDatName, allowThumbnail, skipResolvedCache) ==
    LET byMd5 == <<Lookup("hardlink", imageMd5)>>
        byDat == <<Lookup("hardlink", imageDatName)>>
        Search(made) ==
            IF ~allowThumbnail THEN Resolved(NoPath, made, {})
            ELSE IF imageDatName = NoName THEN Resolved(NoPath, made, {})
            ELSE LET made1 == IF skipResolvedCache THEN made
                              ELSE Append(made, Lookup("resolvedCache", imageDatName))
                     made2 == Append(made1, Lookup("searchDatFile", imageDatName))
                     normalized == normalizeDatBase(imageDatName)
                     made3 == Append(made2, Lookup("searchDatFile", normalized))
                     Found(datPath) ==
                         {[map |-> "resolved", name |-> imageDatName, path |-> datPath]}
                             \cup cacheDatPath(imageDatName, datPath)
                 IN IF ~skipResolvedCache /\ cached # NoPath
                       /\ (allowThumbnail \/ ~isThumbnailPath(cached))
                    THEN Resolved(cached, made1, {})
                    ELSE IF found[imageDatName] # NoPath
                    THEN Resolved(found[imageDatName], made2, Found(found[imageDatName]))
                    ELSE IF normalized # imageDatName
                    THEN IF found[normalized] # NoPath
                         THEN Resolved(found[normalized], made3, Found(found[normalized]))
                         ELSE Resolved(NoPath, made3, {})
                    ELSE Resolved(NoPath, made2, {})
        ByDatName(made) ==
            LET verdict == HardlinkVerdict(hardlink[imageDatName], allowThumbnail)
            IN IF verdict = "hit"
               THEN Resolved(hardlink[imageDatName], made \o byDat,
                             cacheDatPath(imageDatName, hardlink[imageDatName]))
               ELSE IF verdict = "null" THEN Resolved(NoPath, made \o byDat, {})
               ELSE Search(made \o byDat)
    IN IF imageMd5 # NoName
       THEN LET verdict == HardlinkVerdict(hardlink[imageMd5], allowThumbnail)
            IN IF verdict = "hit"
               THEN Resolved(hardlink[imageMd5], byMd5,
                        cacheDatPath(imageMd5, hardlink[imageMd5])
                            \cup (IF imageDatName # NoName
                                  THEN cacheDatPath(imageDatName, hardlink[imageMd5])
                                  ELSE {}))
               ELSE IF verdict = "null" THEN Resolved(NoPath, byMd5, {})
               ELSE IF imageDatName # NoName /\ looksLikeMd5(imageDatName)
                       /\ imageDatName # imageMd5
               THEN ByDatName(byMd5)
               ELSE Search(byMd5)
       ELSE IF imageDatName # NoName /\ looksLikeMd5(imageDatName)
       THEN ByDatName(<<>>)
       ELSE Search(<<>>)

\* The environments resolveDatPath is studied in.
NameA == Md5Name("0a")
NameB == Md5Name("0b")
NameBt == [base |-> "0b", hex |-> TRUE, suffix |-> "_t"]
NameX == [base |-> "img", hex |-> FALSE, suffix |-> ""]
Names == {NoName, NameA, NameB, NameBt, NameX}

DatPathsOf(name) == {NoPath, DatFile(name.base, "_t"), DatFile(name.base, "_h")}

HardlinkTables ==
    {[n \in Names |-> IF n = NameA THEN a ELSE IF n = NameB THEN b ELSE NoPath] :
        a \in DatPathsOf(NameA), b \in DatPathsOf(NameB)}

ResolveArgs ==
    {[fn |-> "resolveDatPath", hardlink |-> h, cached |-> c,
      found |-> [n \in Names |-> IF n = d THEN f ELSE IF n = normalizeDatBase(d) THEN g
                                 ELSE NoPath],
      imageMd5 |-> m, imageDatName |-> d, allowThumbnail |-> a, skipResolvedCache |-> s] :
        h \in HardlinkTables, m \in {NoName, NameA}, d \in Names,
        c \in {NoPath, DatFile("0b", "_t")}, f \in {NoPath, DatFile("0b", "_t")},
        g \in {NoPath, DatFile("0b", "_h")}, a \in BOOLEAN, s \in BOOLEAN}

ResolveDatPathCall ==
    /\ arg.fn = "resolveDatPath" /\ ~ret.done
    /\ ret' = [done |-> TRUE,
               resolved |-> resolveDatPath(arg.hardlink, arg.cached, arg.found, arg.imageMd5,
                                arg.imageDatName, arg.allowThumbnail, arg.skipResolvedCache)]
    /\ UNCHANGED <<arg, cursorVars, imageVars, voiceVars>>

---------------------------------------------------------------------------
(* ImageDecryptService.indexCacheDir and addCacheIndex: the index that     *)
(* ensureCacheIndexed builds in resolvedCache                              *)

MaxIndexFiles == 3   \* files under the cache roots

\* the files a cache root may hold: outputs in the new naming (_thumb, _hd),
\* in the old naming (no suffix, _t, _h), and leftover .hevc streams
IndexSuffixes == {"", "_t", "_h", "_thumb", "_hd"}
CacheEntries == [base : {"0a"}, suffix : IndexSuffixes, ext : {".jpg", ".png", ".hevc"}]

\* the name of a path without its extension: the key it is indexed under
BaseOf(path) == [base |-> path.base, suffix |-> path.suffix, ext |-> ""]
IndexKeys == {BaseOf(e) : e \in CacheEntries}

addCacheIndex_LastWins(index, key, path) == [index EXCEPT ![key] = path]

\* addCacheIndex(key, path) on the map `index`
addCacheIndex(index, key, path) ==
    LET existing == index[key]
    IN IF existing # NoPath /\ ~isThumbnailPath(existing) /\ isThumbnailPath(path)
       THEN index
       ELSE [index EXCEPT ![key] = path]

\* the body of indexCacheDir's loop for one file
IndexEntry(index, entry) ==
    IF ~isImageFile(entry) THEN index
    ELSE LET base == BaseOf(entry)
             normalized == normalizeDatBase(base)
             first == addCacheIndex(index, base, entry)
         IN IF normalized # base THEN addCacheIndex(first, normalized, entry) ELSE first

\* the keys the loop body indexes a file under
KeysOf(entry) ==
    IF ~isImageFile(entry) THEN {} ELSE {BaseOf(entry), normalizeDatBase(BaseOf(entry))}

IndexStart ==
    [done |-> FALSE, index |-> [k \in IndexKeys |-> NoPath], visited |-> <<>>]

\* readdirSync returned the entries in some order; the next one is indexed
EntryIndexed(entry) ==
    /\ arg.fn = "ensureCacheIndexed" /\ ~ret.done
    /\ entry \in arg.files /\ \A i \in 1..Len(ret.visited) : ret.visited[i] # entry
    /\ ret' = [ret EXCEPT !.index = IndexEntry(ret.index, entry),
                          !.visited = Append(ret.visited, entry)]
    /\ UNCHANGED <<arg, cursorVars, imageVars, voiceVars>>

\* the walk is over: cacheIndexed = true
CacheIndexed ==
    /\ arg.fn = "ensureCacheIndexed" /\ ~ret.done
    /\ Len(ret.visited) = Cardinality(arg.files)
    /\ ret' = [ret EXCEPT !.done = TRUE]
    /\ UNCHANGED <<arg, cursorVars, imageVars, voiceVars>>

NextIndex ==
    \/ \E entry \in CacheEntries : EntryIndexed(entry)
    \/ CacheIndexed

(* ImageDecryptService: requests, decryptImageInternal runs, update checks *)

MaxImageReqs == 2    \* decryptImage / resolveCachedImage requests at once
MaxTasks == 2        \* decryptImageInternal runs at once
MaxChecks == 1       \* checkHasUpdate runs at once
MaxImageUpdates == 2 \* emitImageUpdate calls counted per key

ImageKeys == {"0a"}
ReqIds == 1..MaxImageReqs
TaskIds == 1..MaxTasks
CheckIds == 1..MaxChecks

NoImageResult == [success |-> FALSE, path |-> NoPath, isThumb |-> FALSE, hasUpdate |-> FALSE,
              error |-> ""]
Failure(error, isThumb) == [NoImageResult EXCEPT !.error = error, !.isThumb = isThumb]
Success(path, isThumb, hasUpdate) ==
    [success |-> TRUE, path |-> path, isThumb |-> isThumb, hasUpdate |-> hasUpdate,
     error |-> ""]

IdleReq == [pc |-> "idle", op |-> "", key |-> "", force |-> FALSE, task |-> 0,
            afterHd |-> FALSE, result |-> NoImageResult]
FreeTask == [pc |-> "free", key |-> "", force |-> FALSE, datPath |-> NoPath,
             outputPath |-> NoPath]
FreeCheck == [pc |-> "free", key |-> ""]

ImageIdle ==
    /\ resolvedCache = [k \in ImageKeys |-> NoPath]
    /\ datPathCache = [k \in ImageKeys |-> NoPath]
    /\ updateFlags = [k \in ImageKeys |-> FALSE]
    /\ pending = [k \in ImageKeys |-> 0]
    /\ tasks = [t \in TaskIds |-> FreeTask]
    /\ reqs = [r \in ReqIds |-> IdleReq]
    /\ checks = [i \in CheckIds |-> FreeCheck]
    /\ clearing = FALSE
    /\ datFiles = {DatFile(k, "_t") : k \in ImageKeys}
    /\ hardlinkRow = [k \in ImageKeys |-> "_t"]
    /\ outFiles = {}
    /\ hdDone = [k \in ImageKeys |-> FALSE]
    /\ imageUpdates = [k \in ImageKeys |-> 0]

\* resolveHardlinkPath: the row's file, if it exists
resolveHardlinkPath(md5) ==
    IF hardlinkRow[md5] # "none" /\ DatFile(md5, hardlinkRow[md5]) \in datFiles
    THEN DatFile(md5, hardlinkRow[md5])
    ELSE NoPath

\* findCachedOutput(cacheKey, preferHd): `${key}_hd` and `${key}_thumb` in the cache
findCachedOutput(cacheKey, preferHd) ==
    LET hdPath == [base |-> cacheKey, suffix |-> "_hd", ext |-> ".jpg"]
        thumbPath == [base |-> cacheKey, suffix |-> "_thumb", ext |-> ".jpg"]
    IN IF preferHd /\ hdPath \in outFiles THEN hdPath
       ELSE IF thumbPath \in outFiles THEN thumbPath
       ELSE IF ~preferHd /\ hdPath \in outFiles THEN hdPath
       ELSE NoPath

\* findCachedOutputInDir first unlinks the key's leftover .hevc outputs
SweepHevc(files, key) == {f \in files : ~(f.base = key /\ f.ext = ".hevc")}

\* findNonThumbnailVariantInDir(dirPath, baseName)
findNonThumbnailVariantInDir(baseName) ==
    \E entry \in datFiles :
        /\ ~isThumbnailDat(entry) /\ hasXVariant(entry)
        /\ normalizeDatBase(entry).base = baseName

\* getCachedDatDir: a container path is cached for the key and still exists
getCachedDatDir(imageMd5) == datPathCache[imageMd5] \in datFiles

RunningTasks(ts, key) == {t \in TaskIds : ts[t].pc # "free" /\ ts[t].key = key}

\* The variant whose caller has no `finally`: the entry stays.
Settle_KeepsEntry(t, result, cache, flags, files) ==
    /\ reqs' = [r \in ReqIds |->
                  IF reqs[r].pc = "waiting" /\ reqs[r].task = t
                  THEN [reqs[r] EXCEPT !.pc = "done", !.result = result]
                  ELSE reqs[r]]
    /\ tasks' = [tasks EXCEPT ![t] = FreeTask]
    /\ resolvedCache' = cache
    /\ updateFlags' = flags
    /\ outFiles' = files
    /\ UNCHANGED <<pending, checks, clearing, datFiles, hardlinkRow, cursorVars, pureVars,
                   voiceVars>>

\* a decryptImageInternal run returns: the promise settles, every caller that
\* awaits it resumes, and the caller that started it runs its `finally`
Settle(t, result, cache, flags, files) ==
    /\ reqs' = [r \in ReqIds |->
                  IF reqs[r].pc = "waiting" /\ reqs[r].task = t
                  THEN [reqs[r] EXCEPT !.pc = "done", !.result = result]
                  ELSE reqs[r]]
    /\ pending' = [pending EXCEPT ![tasks[t].key] = 0]
    /\ tasks' = [tasks EXCEPT ![t] = FreeTask]
    /\ resolvedCache' = cache
    /\ updateFlags' = flags
    /\ outFiles' = files
    /\ UNCHANGED <<checks, clearing, datFiles, hardlinkRow, cursorVars, pureVars, voiceVars>>

\* request slots are taken in order
SlotFree(r) ==
    /\ reqs[r].pc \in {"idle", "done"}
    /\ \A q \in ReqIds : q < r => reqs[q].pc = "waiting"

\* decryptImage(payload), lines 147-177, up to `await task`
DecryptImage(r, key, force) ==
    /\ SlotFree(r)
    /\ LET cached == resolvedCache[key]
           req == [IdleReq EXCEPT !.op = "decryptImage", !.key = key, !.force = force,
                                  !.afterHd = hdDone[key]]
       IN IF ~force /\ cached # NoPath /\ cached \in outFiles /\ isImageFile(cached)
          THEN /\ reqs' = [reqs EXCEPT ![r] = [req EXCEPT !.pc = "done",
                               !.result = Success(cached, FALSE, FALSE)]]
               /\ UNCHANGED <<resolvedCache, pending, tasks>>
          ELSE /\ resolvedCache' =
                     IF ~force /\ cached # NoPath /\ ~isImageFile(cached)
                     THEN [resolvedCache EXCEPT ![key] = NoPath] ELSE resolvedCache
               /\ IF pending[key] # 0
                  THEN /\ reqs' = [reqs EXCEPT ![r] = [req EXCEPT !.pc = "waiting",
                                       !.task = pending[key]]]
                       /\ UNCHANGED <<pending, tasks>>
                  ELSE \E t \in TaskIds :
                         /\ tasks[t].pc = "free"
                         /\ \A u \in TaskIds : tasks[u].pc = "free" => t <= u
                         /\ tasks' = [tasks EXCEPT ![t] = [FreeTask EXCEPT !.pc = "resolving",
                                          !.key = key, !.force = force]]
                         /\ pending' = [pending EXCEPT ![key] = t]
                         /\ reqs' = [reqs EXCEPT ![r] = [req EXCEPT !.pc = "waiting",
                                         !.task = t]]
    /\ UNCHANGED <<datPathCache, updateFlags, checks, clearing, datFiles, hardlinkRow,
                   outFiles, hdDone, imageUpdates, cursorVars,
                   pureVars, voiceVars>>

\* resolveCachedImage(payload), lines 101-145, with triggerUpdateCheck (557-568)
\* and checkHasUpdate (514-555) up to its first await
ResolveCachedImage(r, key) ==
    /\ SlotFree(r)
    /\ LET cached == resolvedCache[key]
           byCache == cached # NoPath /\ cached \in outFiles /\ isImageFile(cached)
           existing == findCachedOutput(key, FALSE)
           path == IF byCache THEN cached ELSE existing
           isThumb == isThumbnailPath(path)
           hasUpdate == isThumb /\ updateFlags[key]
           req == [IdleReq EXCEPT !.op = "resolveCachedImage", !.key = key, !.pc = "done",
                                  !.afterHd = hdDone[key]]
           quick == getCachedDatDir(key) /\ findNonThumbnailVariantInDir(key)
       IN IF path = NoPath
          THEN /\ reqs' = [reqs EXCEPT ![r] = [req EXCEPT !.result = Failure("cache miss", FALSE)]]
               /\ resolvedCache' =
                     IF cached # NoPath /\ ~isImageFile(cached)
                     THEN [resolvedCache EXCEPT ![key] = NoPath] ELSE resolvedCache
               /\ UNCHANGED <<updateFlags, checks, imageUpdates>>
          ELSE /\ reqs' = [reqs EXCEPT ![r] = [req EXCEPT !.result =
                               Success(path, isThumb, hasUpdate)]]
               /\ resolvedCache' = [resolvedCache EXCEPT ![key] = path]
               /\ IF ~isThumb
                  THEN /\ updateFlags' = [updateFlags EXCEPT ![key] = FALSE]
                       /\ UNCHANGED <<checks, imageUpdates>>
                  ELSE IF updateFlags[key] THEN UNCHANGED <<updateFlags, checks, imageUpdates>>
                  ELSE IF quick
                  THEN /\ imageUpdates[key] < MaxImageUpdates
                       /\ updateFlags' = [updateFlags EXCEPT ![key] = TRUE]
                       /\ imageUpdates' = [imageUpdates EXCEPT ![key] = @ + 1]
                       /\ UNCHANGED checks
                  ELSE /\ \E i \in CheckIds :
                            /\ checks[i].pc = "free"
                            /\ \A j \in CheckIds : checks[j].pc = "free" => i <= j
                            /\ checks' = [checks EXCEPT ![i] = [pc |-> "query", key |-> key]]
                       /\ UNCHANGED <<updateFlags, imageUpdates>>
    /\ outFiles' = IF resolvedCache[key] # NoPath /\ resolvedCache[key] \in outFiles
                       /\ isImageFile(resolvedCache[key])
                    THEN outFiles ELSE SweepHevc(outFiles, key)
    /\ UNCHANGED <<datPathCache, pending, tasks, clearing, datFiles, hardlinkRow,
                   hdDone, cursorVars, pureVars, voiceVars>>

\* resolveDatPath returned to decryptImageInternal: lines 198-264
DatPathResolved(t) ==
    /\ tasks[t].pc = "resolving"
    /\ LET k == tasks[t]
           md5 == Md5Name(k.key)
           resolved == resolveDatPath([n \in {NoName, md5} |->
                                          IF n = md5 THEN resolveHardlinkPath(k.key) ELSE NoPath],
                                      NoPath, [n \in {NoName, md5} |-> NoPath],
                                      md5, NoName, ~k.force, k.force)
           datPath == resolved.path
           existing == findCachedOutput(k.key, k.force)
       IN /\ datPathCache' = IF \E w \in resolved.writes : w.map = "dat" /\ w.name = md5
                             THEN [datPathCache EXCEPT ![k.key] = datPath]
                             ELSE datPathCache
          /\ UNCHANGED <<hdDone, imageUpdates>>
          /\ IF datPath = NoPath
             THEN Settle(t, Failure(IF k.force THEN "no high-definition container" ELSE "no container", FALSE),
                         resolvedCache, updateFlags, outFiles)
             ELSE IF existing # NoPath /\ ~(k.force /\ ~isHdPath(existing))
             THEN Settle(t, Success(existing, isThumbnailPath(existing), FALSE),
                         [resolvedCache EXCEPT ![k.key] = existing], updateFlags,
                         SweepHevc(outFiles, k.key))
             ELSE /\ tasks' = [tasks EXCEPT ![t].pc = "decrypting", ![t].datPath = datPath]
                  /\ outFiles' = SweepHevc(outFiles, k.key)
                  /\ UNCHANGED <<resolvedCache, updateFlags, pending, reqs, checks, clearing,
                                 datFiles, hardlinkRow, cursorVars, pureVars, voiceVars>>

\* decryptDatAuto and unwrapWxgf returned: lines 264-280
DatDecrypted(t, ext) ==
    /\ tasks[t].pc = "decrypting"
    /\ IF ext = "throw"
       THEN Settle(t, Failure("Error", FALSE), resolvedCache, updateFlags, outFiles)
       ELSE /\ tasks' = [tasks EXCEPT ![t].pc = "writing",
                             ![t].outputPath = getCacheOutputPathFromDat(tasks[t].datPath, ext)]
            /\ UNCHANGED <<resolvedCache, updateFlags, pending, reqs, checks, clearing,
                           datFiles, hardlinkRow, outFiles, cursorVars, pureVars, voiceVars>>
    /\ UNCHANGED <<datPathCache, hdDone, imageUpdates>>

\* writeFile has written the output
OutputWritten(t) ==
    /\ tasks[t].pc = "writing"
    /\ tasks' = [tasks EXCEPT ![t].pc = "written"]
    /\ outFiles' = outFiles \cup {tasks[t].outputPath}
    /\ UNCHANGED <<resolvedCache, datPathCache, updateFlags, pending, reqs, checks, clearing,
                   datFiles, hardlinkRow, hdDone, imageUpdates, cursorVars,
                   pureVars, voiceVars>>

\* `await writeFile` returned: lines 281-299
DecryptFinished(t) ==
    /\ tasks[t].pc = "written"
    /\ LET k == tasks[t]
           isThumb == isThumbnailPath(k.datPath)
       IN IF k.outputPath.ext = ".hevc"
          THEN /\ Settle(t, Failure("wxgf", isThumb), resolvedCache, updateFlags, outFiles)
               /\ UNCHANGED <<hdDone, imageUpdates>>
          ELSE /\ Settle(t, Success(k.outputPath, isThumb, FALSE),
                         [resolvedCache EXCEPT ![k.key] = k.outputPath],
                         IF isThumb THEN updateFlags
                         ELSE [updateFlags EXCEPT ![k.key] = FALSE],
                         outFiles)
               /\ hdDone' = [hdDone EXCEPT ![k.key] = @ \/ ~isThumb]
               /\ imageUpdates' = IF isThumb THEN imageUpdates
                                  ELSE [imageUpdates EXCEPT ![k.key] = 0]
    /\ UNCHANGED datPathCache

\* the update: checkHasUpdate answered true, lines 563-567
FlagUpdate(i, hasUpdate) ==
    /\ hasUpdate => imageUpdates[checks[i].key] < MaxImageUpdates
    /\ checks' = [checks EXCEPT ![i] = FreeCheck]
    /\ updateFlags' = IF hasUpdate THEN [updateFlags EXCEPT ![checks[i].key] = TRUE]
                      ELSE updateFlags
    /\ imageUpdates' = IF hasUpdate THEN [imageUpdates EXCEPT ![checks[i].key] = @ + 1]
                       ELSE imageUpdates

\* resolveThumbnailDatPath returned to checkHasUpdate: lines 537-549
UpdateCheckQueried(i) ==
    /\ checks[i].pc = "query"
    /\ LET key == checks[i].key
           hardlinkPath == resolveHardlinkPath(key)
           thumbPath == IF hardlinkPath # NoPath /\ isThumbnailPath(hardlinkPath)
                        THEN hardlinkPath ELSE NoPath
       IN IF thumbPath = NoPath THEN FlagUpdate(i, FALSE)
          ELSE IF findNonThumbnailVariantInDir(key) THEN FlagUpdate(i, TRUE)
          ELSE /\ checks' = [checks EXCEPT ![i].pc = "search"]
               /\ UNCHANGED <<updateFlags, imageUpdates>>
    /\ UNCHANGED <<resolvedCache, datPathCache, pending, tasks, reqs, clearing, datFiles,
                   hardlinkRow, outFiles, hdDone, cursorVars, pureVars, voiceVars>>

\* what the search worker may answer: nothing, or a container
SearchHits == {NoPath} \cup {DatFile(k, s) : k \in ImageKeys, s \in {"_t", "_h"}}

\* searchDatFileInDir(dir, baseName, false) returned: lines 549-554
UpdateCheckSearched(i, searchHit) ==
    /\ checks[i].pc = "search"
    /\ \/ searchHit = NoPath
       \/ /\ searchHit \in datFiles /\ searchHit.base = checks[i].key
          /\ ~isThumbnailDat(searchHit)
    /\ FlagUpdate(i, searchHit # NoPath /\ isNonThumbnailVariantDat(searchHit))
    /\ UNCHANGED <<resolvedCache, datPathCache, pending, tasks, reqs, clearing, datFiles,
                   hardlinkRow, outFiles, hdDone, cursorVars, pureVars, voiceVars>>

\* clearCache(), lines 1707-1713: the maps are emptied at once
ClearCache ==
    /\ ~clearing
    /\ resolvedCache' = [k \in ImageKeys |-> NoPath]
    /\ datPathCache' = [k \in ImageKeys |-> NoPath]
    /\ pending' = [k \in ImageKeys |-> 0]
    /\ updateFlags' = [k \in ImageKeys |-> FALSE]
    /\ hdDone' = [k \in ImageKeys |-> FALSE]
    /\ imageUpdates' = [k \in ImageKeys |-> 0]
    /\ clearing' = TRUE
    /\ UNCHANGED <<tasks, reqs, checks, datFiles, hardlinkRow, outFiles, cursorVars, pureVars, voiceVars>>

\* clearCache(), lines 1715-1769: the files under the cache root are removed
CacheFilesRemoved ==
    /\ clearing
    /\ outFiles' = {}
    /\ clearing' = FALSE
    /\ hdDone' = [k \in ImageKeys |-> FALSE]
    /\ UNCHANGED <<resolvedCache, datPathCache, updateFlags, pending, tasks, reqs, checks,
                   datFiles, hardlinkRow, imageUpdates, cursorVars, pureVars, voiceVars>>

\* the messenger downloads the full image: its container appears
HdDatArrived(key) ==
    /\ DatFile(key, "_h") \notin datFiles
    /\ datFiles' = datFiles \cup {DatFile(key, "_h")}
    /\ UNCHANGED <<resolvedCache, datPathCache, updateFlags, pending, tasks, reqs, checks,
                   clearing, hardlinkRow, outFiles, hdDone, imageUpdates, cursorVars,
                   pureVars, voiceVars>>

\* ... and the row of hardlink.db names it
HardlinkChanged(key) ==
    /\ hardlinkRow[key] # "_h"
    /\ DatFile(key, "_h") \in datFiles
    /\ hardlinkRow' = [hardlinkRow EXCEPT ![key] = "_h"]
    /\ UNCHANGED <<resolvedCache, datPathCache, updateFlags, pending, tasks, reqs, checks,
                   clearing, datFiles, outFiles, hdDone, imageUpdates, cursorVars,
                   pureVars, voiceVars>>

ImageSteps ==
    \/ \E r \in ReqIds, key \in ImageKeys, force \in BOOLEAN : DecryptImage(r, key, force)
    \/ \E r \in ReqIds, key \in ImageKeys : ResolveCachedImage(r, key)
    \/ \E t \in TaskIds : DatPathResolved(t)
    \/ \E t \in TaskIds, ext \in {".jpg", ".hevc", "throw"} : DatDecrypted(t, ext)
    \/ \E t \in TaskIds : OutputWritten(t)
    \/ \E t \in TaskIds : DecryptFinished(t)
    \/ \E i \in CheckIds : UpdateCheckQueried(i)
    \/ \E i \in CheckIds, searchHit \in SearchHits : UpdateCheckSearched(i, searchHit)
    \/ \E key \in ImageKeys : HdDatArrived(key)
    \/ \E key \in ImageKeys : HardlinkChanged(key)

NextImage ==
    \/ ImageSteps
    \/ ClearCache
    \/ CacheFilesRemoved

---------------------------------------------------------------------------
(* ChatService.getVoiceTranscript and clearCaches, interleaving at their   *)
(* awaits                                                                  *)

MaxVoiceReqs == 2    \* getVoiceTranscript requests in flight
MaxVoiceRuns == 2    \* transcription tasks in flight
MaxPartials == 2     \* partial results a transcription produces

\* getVoiceCacheKey: `${sessionId}_${createTime}`
VoiceKeys == {"s1_100"}
VoiceReqIds == 1..MaxVoiceReqs
VoiceRunIds == 1..MaxVoiceRuns

NoTranscript == [success |-> FALSE, transcript |-> "", error |-> ""]
TranscriptFailed(error) == [success |-> FALSE, transcript |-> "", error |-> error]
Transcribed(text) == [success |-> TRUE, transcript |-> text, error |-> ""]

\* a request: where it is, the task it awaits, how often its onPartial was
\* called (heard) and how many partial results the task it awaits has produced
\* since the request began to await it (due)
IdleVoiceReq ==
    [pc |-> "idle", key |-> "", run |-> 0, heard |-> 0, due |-> 0, result |-> NoTranscript]

\* a task: where it is, its key, the request whose onPartial it closes over
FreeVoiceRun == [pc |-> "free", key |-> "", owner |-> 0, emitted |-> 0]

VoiceIdle ==
    /\ voiceWavCache = [k \in VoiceKeys |-> FALSE]
    /\ voiceTranscriptCache = [k \in VoiceKeys |-> ""]
    /\ voiceTranscriptPending = [k \in VoiceKeys |-> 0]
    /\ transcribeRuns = [t \in VoiceRunIds |-> FreeVoiceRun]
    /\ transcribeReqs = [r \in VoiceReqIds |-> IdleVoiceReq]

VoiceFrame == UNCHANGED <<cursorVars, pureVars, imageVars>>

\* request slots are taken in order
VoiceSlotFree(r) ==
    /\ transcribeReqs[r].pc \in {"idle", "done"}
    /\ \A q \in VoiceReqIds : q < r => transcribeReqs[q].pc \in {"lookup", "waiting"}

\* lines 3350-3434: the cache, the in-flight map, or a new task that runs up to
\* its first await
Enter(r, key) ==
    LET req == [IdleVoiceReq EXCEPT !.key = key]
    IN IF voiceTranscriptCache[key] # ""
       THEN /\ transcribeReqs' = [transcribeReqs EXCEPT ![r] =
                   [req EXCEPT !.pc = "done",
                               !.result = Transcribed(voiceTranscriptCache[key])]]
            /\ UNCHANGED <<voiceTranscriptPending, transcribeRuns>>
       ELSE IF voiceTranscriptPending[key] # 0
       THEN /\ transcribeReqs' = [transcribeReqs EXCEPT ![r] =
                   [req EXCEPT !.pc = "waiting", !.run = voiceTranscriptPending[key]]]
            /\ UNCHANGED <<voiceTranscriptPending, transcribeRuns>>
       ELSE \E t \in VoiceRunIds :
              /\ transcribeRuns[t].pc = "free"
              /\ \A u \in VoiceRunIds : transcribeRuns[u].pc = "free" => t <= u
              /\ transcribeRuns' = [transcribeRuns EXCEPT ![t] =
                    [FreeVoiceRun EXCEPT !.key = key, !.owner = r,
                        !.pc = IF voiceWavCache[key] THEN "transcribing" ELSE "voice"]]
              /\ voiceTranscriptPending' = [voiceTranscriptPending EXCEPT ![key] = t]
              /\ transcribeReqs' = [transcribeReqs EXCEPT ![r] =
                    [req EXCEPT !.pc = "waiting", !.run = t]]

\* getVoiceTranscript(sessionId, msgId, createTime, onPartial): lines 3317-3434
GetVoiceTranscript(r, key, hasCreateTime) ==
    /\ VoiceSlotFree(r)
    /\ IF hasCreateTime
       THEN Enter(r, key)
       ELSE /\ transcribeReqs' = [transcribeReqs EXCEPT ![r] =
                   [IdleVoiceReq EXCEPT !.pc = "lookup", !.key = key]]
            /\ UNCHANGED <<voiceTranscriptPending, transcribeRuns>>
    /\ UNCHANGED <<voiceWavCache, voiceTranscriptCache>>
    /\ VoiceFrame

\* `await this.getMessageById` returned: lines 3334-3366
MessageLooked(r, found) ==
    /\ transcribeReqs[r].pc = "lookup"
    /\ IF found
       THEN Enter(r, transcribeReqs[r].key)
       ELSE /\ transcribeReqs' = [transcribeReqs EXCEPT ![r] =
                   [@ EXCEPT !.pc = "done", !.result = TranscriptFailed("no timestamp")]]
            /\ UNCHANGED <<voiceTranscriptPending, transcribeRuns>>
    /\ UNCHANGED <<voiceWavCache, voiceTranscriptCache>>
    /\ VoiceFrame

\* the task returns: every request that awaits it resumes, and its `finally`
\* deletes the key's in-flight entry
SettleVoice(t, result) ==
    /\ transcribeReqs' = [r \in VoiceReqIds |->
          IF transcribeReqs[r].pc = "waiting" /\ transcribeReqs[r].run = t
          THEN [transcribeReqs[r] EXCEPT !.pc = "done", !.result = result]
          ELSE transcribeReqs[r]]
    /\ voiceTranscriptPending' = [voiceTranscriptPending EXCEPT ![transcribeRuns[t].key] = 0]
    /\ transcribeRuns' = [transcribeRuns EXCEPT ![t] = FreeVoiceRun]

\* `await this.getVoiceData` returned to the task: lines 3394-3409
VoiceDataReturned(t, ok) ==
    /\ transcribeRuns[t].pc = "voice"
    /\ IF ok
       THEN /\ transcribeRuns' = [transcribeRuns EXCEPT ![t].pc = "transcribing"]
            /\ voiceWavCache' = [voiceWavCache EXCEPT ![transcribeRuns[t].key] = TRUE]
            /\ UNCHANGED <<transcribeReqs, voiceTranscriptPending>>
       ELSE /\ SettleVoice(t, TranscriptFailed("voice decode failed"))
            /\ UNCHANGED voiceWavCache
    /\ UNCHANGED voiceTranscriptCache
    /\ VoiceFrame

\* transcribeWavBuffer reports a partial result: lines 3409-3412
PartialEmitted(t) ==
    /\ transcribeRuns[t].pc = "transcribing"
    /\ transcribeRuns[t].emitted < MaxPartials
    /\ transcribeRuns' = [transcribeRuns EXCEPT ![t].emitted = @ + 1]
    /\ transcribeReqs' = [r \in VoiceReqIds |->
          IF transcribeReqs[r].pc = "waiting" /\ transcribeReqs[r].run = t
          THEN [transcribeReqs[r] EXCEPT
                    !.due = @ + 1,
                    !.heard = IF r = transcribeRuns[t].owner THEN @ + 1 ELSE @]
          ELSE transcribeReqs[r]]
    /\ UNCHANGED <<voiceWavCache, voiceTranscriptCache, voiceTranscriptPending>>
    /\ VoiceFrame

\* `await voiceTranscribeService.transcribeWavBuffer` returned: lines 3413-3430
TranscribeReturned(t, result) ==
    /\ transcribeRuns[t].pc = "transcribing"
    /\ voiceTranscriptCache' =
          IF result.success /\ result.transcript # ""
          THEN [voiceTranscriptCache EXCEPT ![transcribeRuns[t].key] = result.transcript]
          ELSE voiceTranscriptCache
    /\ SettleVoice(t, result)
    /\ UNCHANGED voiceWavCache
    /\ VoiceFrame

\* clearCaches(), lines 2378-2383
ClearCaches ==
    /\ voiceWavCache' = [k \in VoiceKeys |-> FALSE]
    /\ voiceTranscriptCache' = [k \in VoiceKeys |-> ""]
    /\ voiceTranscriptPending' = [k \in VoiceKeys |-> 0]
    /\ UNCHANGED <<transcribeRuns, transcribeReqs>>
    /\ VoiceFrame

TranscribeResults == {Transcribed("text"), Transcribed(""), TranscriptFailed("engine failed")}

TranscribeSteps ==
    \/ \E r \in VoiceReqIds, key \in VoiceKeys, hasCreateTime \in BOOLEAN :
          GetVoiceTranscript(r, key, hasCreateTime)
    \/ \E r \in VoiceReqIds, found \in BOOLEAN : MessageLooked(r, found)
    \/ \E t \in VoiceRunIds, ok \in BOOLEAN : VoiceDataReturned(t, ok)
    \/ \E t \in VoiceRunIds : PartialEmitted(t)
    \/ \E t \in VoiceRunIds, result \in TranscribeResults : TranscribeReturned(t, result)

NextTranscribe ==
    \/ TranscribeSteps
    \/ ClearCaches

---------------------------------------------------------------------------
(* Specifications *)

Init == CursorInit /\ PureIdle /\ ImageIdle /\ VoiceIdle

Spec == Init /\ [][Next]_vars

SpecOverlap == Init /\ [][NextOverlap]_vars

InitOrder ==
    /\ CursorInit /\ ImageIdle /\ VoiceIdle
    /\ arg \in {[fn |-> "normalizeMessageOrder", messages |-> b] : b \in Batches}
    /\ ret = NoRet

SpecOrder == InitOrder /\ [][NormalizeMessageOrderCall]_vars

InitDat ==
    /\ CursorInit /\ ImageIdle /\ VoiceIdle
    /\ arg \in {[fn |-> "decryptDatAuto", file |-> f, aesKey |-> k] :
                   f \in DatContents, k \in AesKeys}
    /\ ret = NoRet

SpecDat == InitDat /\ [][DecryptDatAutoCall]_vars

InitResolve == CursorInit /\ ImageIdle /\ VoiceIdle /\ arg \in ResolveArgs /\ ret = NoRet

SpecResolve == InitResolve /\ [][ResolveDatPathCall]_vars

SpecImage == Init /\ [][NextImage]_vars

\* the image service while nobody clears the cache
SpecImageKept == Init /\ [][ImageSteps]_vars

InitXor ==
    /\ CursorInit /\ ImageIdle /\ VoiceIdle
    /\ arg \in {[fn |-> "decryptDatV3", data |-> d, xorKey |-> k] :
                   d \in XorData, k \in XorKeys}
    /\ ret = NoRet

SpecXor == InitXor /\ [][DecryptDatV3Call \/ DecryptDatV3Again]_vars

InitPadding ==
    /\ CursorInit /\ ImageIdle /\ VoiceIdle
    /\ arg \in {[fn |-> "strictRemovePadding", data |-> d] : d \in PadBuffers}
    /\ ret = NoRet

SpecPadding == InitPadding /\ [][StrictRemovePaddingCall]_vars

InitKey ==
    /\ CursorInit /\ ImageIdle /\ VoiceIdle
    /\ arg \in {[fn |-> "decryptAndStore", file |-> f, imageAesKey |-> k] :
                   f \in StoredContainers, k \in ConfiguredKeys}
    /\ ret = NoRet

SpecKey == InitKey /\ [][DecryptAndStoreCall]_vars

InitVoiceLookup ==
    /\ CursorInit /\ ImageIdle /\ VoiceIdle
    /\ arg \in {[fn |-> "getVoiceDataFromMediaDb", schemas |-> s] :
                   s \in [1..Len(MediaDbs) -> VoiceSchemas]}
    /\ ret = VoiceLookupStart

SpecVoiceLookup == InitVoiceLookup /\ [][NextVoiceLookup]_vars

SpecTranscribe == Init /\ [][NextTranscribe]_vars

\* getVoiceTranscript while nobody clears the caches
SpecTranscribeKept == Init /\ [][TranscribeSteps]_vars

InitBoundary ==
    /\ CursorInit /\ ImageIdle /\ VoiceIdle
    /\ arg = [fn |-> "public"]
    /\ ret = BoundaryStart

SpecBoundary == InitBoundary /\ [][NextBoundary]_vars

InitHevc ==
    /\ CursorInit /\ ImageIdle /\ VoiceIdle
    /\ arg = [fn |-> "convertHevcToJpg"]
    /\ ret = HevcStart

SpecHevc == InitHevc /\ [][NextHevc]_vars

\* the event loop runs the code that is ready to run: the call itself and the
\* continuation of a settled promise.  What the child process does, and when,
\* is up to the process: the code sets no timer on it.
SpecHevcFair == SpecHevc /\ WF_vars(HevcSpawned) /\ WF_vars(ConversionAwaited)

SpecShutdown == Init /\ [][NextShutdown]_vars

InitEffects ==
    /\ CursorInit /\ ImageIdle /\ VoiceIdle
    /\ arg \in {[fn |-> "effects", config |-> c] :
                   c \in [cachePath : BOOLEAN, logEnabled : BOOLEAN]}
    /\ ret = EffectsStart

SpecEffects == InitEffects /\ [][NextEffects]_vars

InitRows ==
    /\ CursorInit /\ ImageIdle /\ VoiceIdle
    /\ arg \in {[fn |-> "mapRowsToMessages", rows |-> r, myWxid |-> w] :
                   r \in UNION {[1..n -> MessageRows] : n \in 1..MaxRows},
                   w \in {NoIdentity, [base |-> "me", upper |-> FALSE, suffix |-> TRUE],
                          [base |-> "me", upper |-> TRUE, suffix |-> FALSE]}}
    /\ ret = NoRet

SpecRows == InitRows /\ [][MapRowsToMessagesCall]_vars

\* the cache starts with the entries contactCacheService persisted
InitContacts ==
    /\ CursorInit /\ ImageIdle /\ VoiceIdle
    /\ arg = [fn |-> "contacts"]
    /\ \E persisted \in [Usernames -> ContactEntries] : ret = ContactsStart(persisted)

\* the readers that validate the entry: without the session list
NextContactsChecked ==
    \/ \E u \in Usernames, fetched \in AvatarUrls : EnrichSessionsContactInfo(u, fetched)
    \/ \E u \in Usernames, fetched \in AvatarUrls : GetContactAvatar(u, fetched)
    \/ AvatarTtlElapsed

SpecContacts == InitContacts /\ [][NextContacts]_vars

SpecContactsChecked == InitContacts /\ [][NextContactsChecked]_vars

\* The two in-flight maps.  The image service and the chat service share no
\* state, so a behaviour exercises one of them: decryptImage with clearCache,
\* or getVoiceTranscript (its partial results left aside) with clearCaches.
InitPending ==
    /\ CursorInit /\ ImageIdle /\ VoiceIdle
    /\ arg \in {[fn |-> "decryptImage"], [fn |-> "getVoiceTranscript"]}
    /\ ret = NoRet

NextPending ==
    \/ /\ arg.fn = "decryptImage"
       /\ \/ \E r \in ReqIds, key \in ImageKeys, force \in BOOLEAN : DecryptImage(r, key, force)
          \/ \E t \in TaskIds : DatPathResolved(t)
          \/ \E t \in TaskIds, ext \in {".jpg", ".hevc", "throw"} : DatDecrypted(t, ext)
          \/ \E t \in TaskIds : OutputWritten(t)
          \/ \E t \in TaskIds : DecryptFinished(t)
          \/ ClearCache
          \/ CacheFilesRemoved
    \/ /\ arg.fn = "getVoiceTranscript"
       /\ \/ \E r \in VoiceReqIds, key \in VoiceKeys, hasCreateTime \in BOOLEAN :
                GetVoiceTranscript(r, key, hasCreateTime)
          \/ \E r \in VoiceReqIds, found \in BOOLEAN : MessageLooked(r, found)
          \/ \E t \in VoiceRunIds, ok \in BOOLEAN : VoiceDataReturned(t, ok)
          \/ \E t \in VoiceRunIds, result \in TranscribeResults : TranscribeReturned(t, result)
          \/ ClearCaches

SpecPending == InitPending /\ [][NextPending]_vars

InitVoiceCache ==
    /\ CursorInit /\ ImageIdle /\ VoiceIdle
    /\ arg \in {[fn |-> "voiceCache", cache |-> c] :
                   c \in {"voiceWavCache", "voiceTranscriptCache"}}
    /\ ret = VoiceCacheStart

SpecVoiceCache == InitVoiceCache /\ [][NextVoiceCache]_vars

InitV4 ==
    /\ CursorInit /\ ImageIdle /\ VoiceIdle
    /\ arg \in {[fn |-> "decryptDatV4", file |-> f, xorKey |-> x, aesKey |-> k] :
                   f \in V4Containers, x \in V4XorKeys, k \in V4AesKeys}
    /\ ret = NoRet

SpecV4 == InitV4 /\ [][DecryptDatV4Call]_vars

InitContent ==
    /\ CursorInit /\ ImageIdle /\ VoiceIdle
    /\ arg \in {[fn |-> "mapRowContents", rows |-> r] :
                   r \in UNION {[1..n -> ContentRows] : n \in 0..MaxContentRows}}
    /\ ret = NoRet

SpecContent == InitContent /\ [][MapRowContentsCall]_vars

InitSchemaCache ==
    /\ CursorInit /\ ImageIdle /\ VoiceIdle
    /\ arg \in {[fn |-> "mediaDbSchemaCache", usable |-> u] : u \in [ShardIds -> BOOLEAN]}
    /\ ret = SchemaCacheStart

SpecSchemaCache == InitSchemaCache /\ [][NextSchemaCache]_vars

InitIndex ==
    /\ CursorInit /\ ImageIdle /\ VoiceIdle
    /\ arg \in {[fn |-> "ensureCacheIndexed", files |-> f] :
                   f \in {s \in SUBSET CacheEntries : Cardinality(s) <= MaxIndexFiles}}
    /\ ret = IndexStart

SpecIndex == InitIndex /\ [][NextIndex]_vars

InitVoiceKeys ==
    /\ CursorInit /\ ImageIdle /\ VoiceIdle
    /\ arg = [fn |-> "voiceKeys"]
    /\ ret = VoiceKeysStart

SpecVoiceKeys == InitVoiceKeys /\ [][NextVoiceKeys]_vars

InitShards ==
    /\ CursorInit /\ ImageIdle /\ VoiceIdle
    /\ arg \in {[fn |-> "getVoiceDataFromMediaDb", schemas |-> s, shards |-> c] :
                   s \in [1..Len(MediaDbs) -> ShardSchemas],
                   c \in [1..Len(MediaDbs) -> ShardContents]}
    /\ ret = VoiceLookupStart

SpecShards == InitShards /\ [][NextShards]_vars

InitLatest ==
    /\ CursorInit /\ ImageIdle /\ VoiceIdle
    /\ arg = [fn |-> "getLatestMessages"]
    /\ ret = LatestIdle

SpecLatest == InitLatest /\ [][NextLatest]_vars

---------------------------------------------------------------------------
(* Claims about the Message Cursor Manager *)

\* The rows the cursor a call asks for runs over.
SeqOf(k) == CursorSeq(k.sid, k.ascending, ToSeconds(k.startTime), ToSeconds(k.endTime))

\* The conditions the specification lists for rebuilding the cursor.
MustRebuild(k) ==
    \/ k.snap = NoState
    \/ k.offset = 0
    \/ k.snap.batchSize # BatchSizeOf(k.limit)
    \/ k.snap.startTime # k.startTime
    \/ k.snap.endTime # k.endTime
    \/ k.snap.ascending # k.ascending

C2_SkipsExactlyOffset ==
    \A c \in Calls :
        LET k == calls[c] IN
        (k.pc = "done" /\ k.result.kind = "ok" /\ k.fresh /\ k.offset > 0) =>
            k.result.messages =
                normalizeMessageOrder(
                    SubSeq(SeqOf(k), k.offset + 1,
                           Min(Len(SeqOf(k)), k.offset + BatchSizeOf(k.limit))))

RECURSIVE Pages(_, _)
Pages(seq, batchSize) ==
    IF seq = <<>> THEN <<>>
    ELSE LET n == Min(Len(seq), batchSize)
         IN normalizeMessageOrder(SubSeq(seq, 1, n)) \o Pages(SubSeq(seq, n + 1, Len(seq)), batchSize)

\* C4: what a caller collects by paging a session from offset 0 is fixed by
\* (session, limit, startTime, endTime, ascending) alone: it is the leading
\* pages of that cursor sequence, whatever calls were made before.  Two such
\* passes with the same parameters therefore yield the same records.
C4_PagingIsDeterministic ==
    \A s \in Sessions :
        LET t == trav[s]
            all == Pages(CursorSeq(s, t.ascending, ToSeconds(t.startTime), ToSeconds(t.endTime)),
                         BatchSizeOf(t.limit))
        IN t.on =>
            /\ Len(t.acc) = Min(Len(all), t.pages * BatchSizeOf(t.limit))
            /\ t.acc = SubSeq(all, 1, Len(t.acc))

\* C4 witness: a second page collected from a time-bounded cursor after the
\* session had been paged before with other parameters.
C4_Witness ==
    /\ trav["s1"].on /\ trav["s1"].pages = 2 /\ trav["s1"].endTime # 0
    /\ Len(trav["s1"].acc) = 3
    /\ trav["s2"].on /\ trav["s2"].pages = 1

\* C5: two getMessages calls on the same session are never in progress at
\* once, so the session's cursor state is never used by two calls at a time.
C5_NoInterleaving ==
    \A c, d \in Calls :
        (c # d /\ calls[c].sid = calls[d].sid) =>
            ~(/\ calls[c].pc \notin {"idle", "done"} /\ calls[c].decided
              /\ calls[d].pc \notin {"idle", "done"} /\ calls[d].decided)

---------------------------------------------------------------------------
(* Claims about message ordering *)

\* C6: for a batch of at least two records whose first ordering key is
\* greater than its last, normalizeMessageOrder returns the batch reversed;
\* every other batch it returns in its input order.
C6_ReversesWhenDescending ==
    (ret.done /\ arg.fn = "normalizeMessageOrder") =>
        LET in == arg.messages
            out == ret.messages
            n == Len(in)
        IN IF n >= 2 /\ OrderKey(in[1]) > OrderKey(in[n])
           THEN Len(out) = n /\ \A i \in 1..n : out[i] = in[n + 1 - i]
           ELSE out = in

\* C6 witness: a batch of three whose first key, taken from createTime for
\* want of a sortSeq, exceeds the last was returned reversed.
C6_Witness ==
    /\ ret.done /\ arg.fn = "normalizeMessageOrder"
    /\ Len(arg.messages) = 3
    /\ arg.messages[1].sortSeq = 0 /\ arg.messages[1].createTime = 2
    /\ arg.messages[3].sortSeq = 1
    /\ arg.messages[2] # arg.messages[1] /\ arg.messages[2] # arg.messages[3]
    /\ ret.messages = <<arg.messages[3], arg.messages[2], arg.messages[1]>>

---------------------------------------------------------------------------
(* Claims about the image decryption service *)

\* C7: decryptImage requests for the same key that overlap in time all await
\* one and the same decryptImageInternal run.
C7_OneRunPerKey ==
    \A r, q \in ReqIds :
        (/\ reqs[r].pc = "waiting" /\ reqs[q].pc = "waiting"
         /\ reqs[r].key = reqs[q].key) => reqs[r].task = reqs[q].task

\* C8: with allowThumbnail = false resolveDatPath never returns a thumbnail
\* and makes hardlink lookups only; a hardlink lookup that yields a thumbnail
\* is its last lookup and the result is null, and so it is for the lookup of
\* the hash itself.
C8_ThumbnailEndsResolution ==
    (ret.done /\ arg.fn = "resolveDatPath" /\ ~arg.allowThumbnail) =>
        LET resolved == ret.resolved
            n == Len(resolved.lookups)
        IN /\ ~isThumbnailPath(resolved.path)
           /\ \A i \in 1..n :
                 /\ resolved.lookups[i].kind = "hardlink"
                 /\ isThumbnailPath(arg.hardlink[resolved.lookups[i].name]) =>
                       (i = n /\ resolved.path = NoPath /\ resolved.writes = {})
           /\ (arg.imageMd5 # NoName /\ isThumbnailPath(arg.hardlink[arg.imageMd5])) =>
                 /\ resolved.lookups = <<Lookup("hardlink", arg.imageMd5)>>
                 /\ resolved.path = NoPath

\* C8 witness: the hash's hardlink row yields a thumbnail while the row of the
\* container name yields the full image, and the answer is null.
C8_Witness ==
    /\ ret.done /\ arg.fn = "resolveDatPath" /\ ~arg.allowThumbnail
    /\ arg.imageMd5 = NameA /\ arg.hardlink[NameA] = DatFile("0a", "_t")
    /\ arg.imageDatName = NameB /\ arg.hardlink[NameB] = DatFile("0b", "_h")
    /\ ret.resolved.path = NoPath
    /\ Len(ret.resolved.lookups) = 1

\* C9: once a high-definition container has been decrypted for a key, the
\* key's update flag is not set, and every cache lookup made for the key from
\* then on (resolveCachedImage, or decryptImage without force) has returned
\* the high-definition output.
C9_HdStaysResolved ==
    \A key \in ImageKeys :
        hdDone[key] =>
            /\ ~updateFlags[key]
            /\ \A r \in ReqIds :
                  (/\ reqs[r].pc = "done" /\ reqs[r].key = key /\ reqs[r].afterHd
                   /\ (reqs[r].op = "resolveCachedImage" \/ ~reqs[r].force)) =>
                      /\ reqs[r].result.success
                      /\ reqs[r].result.path = [base |-> key, suffix |-> "_hd", ext |-> ".jpg"]

\* C10: getDatVersion answers 1 for a container that starts with
\* 07 08 56 31 08 07, 2 for one that starts with 07 08 56 32 08 07 and 0 for
\* every other, shorter ones included; decryptDatAuto then runs decryptDatV3
\* for version 0, decryptDatV4 with the built-in key for version 1 and
\* decryptDatV4 with the configured key for version 2 (failing without one).
C10_SignatureSelectsRoute ==
    (ret.done /\ arg.fn = "decryptDatAuto" /\ arg.file.exists) =>
        LET bytes == arg.file.bytes
            Starts(sig) == Len(bytes) >= 6 /\ \A i \in 1..6 : bytes[i] = sig[i]
            v == IF Starts(<<7, 8, 86, 49, 8, 7>>) THEN 1
                 ELSE IF Starts(<<7, 8, 86, 50, 8, 7>>) THEN 2 ELSE 0
        IN /\ ret.version = [threw |-> FALSE, version |-> v]
           /\ v = 0 => ret.route = [fn |-> "decryptDatV3", key |-> NullKey]
           /\ v = 1 => /\ ret.route.fn = "decryptDatV4"
                       /\ ret.route.key.text = "cfcd208495d565ef"
                       /\ ret.route.key.length = 16
           /\ v = 2 => IF arg.aesKey.isNull \/ arg.aesKey.length # 16
                       THEN ret.route.fn = "throw"
                       ELSE ret.route = [fn |-> "decryptDatV4", key |-> arg.aesKey]

\* C10 witness: a container that is exactly the V2 signature went to
\* decryptDatV4 with the configured key.
C10_Witness ==
    /\ ret.done /\ arg.fn = "decryptDatAuto"
    /\ arg.file.bytes = <<7, 8, 86, 50, 8, 7>>
    /\ ret.version.version = 2
    /\ ret.route.fn = "decryptDatV4" /\ ret.route.key.text = "configured"

---------------------------------------------------------------------------
(* Claims about the byte-level decryption steps *)

\* C11: decryptDatV3 returns as many bytes as it was given, and applied with
\* the same one-byte key to its own output it returns the original bytes.
C11_XorIsInvolution ==
    (arg.fn = "decryptDatV3" /\ ret.done) =>
        /\ Len(ret.out) = Len(arg.data)
        /\ ret.again => ret.out = arg.data

\* C11 witness: three bytes decrypted twice with key 0x53 are the original
\* bytes again, and one decryption with that key changes them.
C11_Witness ==
    /\ arg.fn = "decryptDatV3" /\ ret.done /\ ret.again
    /\ arg.data = <<7, 83, 255>> /\ arg.xorKey = 83
    /\ ret.out = arg.data
    /\ decryptDatV3(arg.data, arg.xorKey) = <<84, 0, 172>>

\* The buffers the specification says strictRemovePadding rejects.
PaddingRejected(d) ==
    \/ Len(d) = 0
    \/ d[Len(d)] = 0
    \/ d[Len(d)] > 16
    \/ d[Len(d)] > Len(d)
    \/ \E i \in 1..Len(d) : i > Len(d) - d[Len(d)] /\ d[i] # d[Len(d)]

\* C12: strictRemovePadding throws on an empty buffer, on a final byte p that
\* is 0, above 16 or above the buffer's length, and when one of the last p
\* bytes is not p; on every other buffer it returns the buffer without its
\* last p bytes.
C12_PaddingIsStrict ==
    (arg.fn = "strictRemovePadding" /\ ret.done) =>
        /\ ret.result.threw <=> PaddingRejected(arg.data)
        /\ ~ret.result.threw =>
              /\ Len(ret.result.data) = Len(arg.data) - arg.data[Len(arg.data)]
              /\ ret.result.data = SubSeq(arg.data, 1, Len(ret.result.data))

\* C12 witness: a buffer ending in five bytes of value 5 loses those 5 bytes.
C12_Witness ==
    /\ arg.fn = "strictRemovePadding" /\ ret.done
    /\ arg.data = <<1, 5, 5, 5, 5, 5>>
    /\ ret.result = Unpadded(<<1>>)

\* C13: decrypting a V2 container while the configured AES key is not exactly
\* 16 bytes long fails, writes no output file and caches no resolved path; with
\* a 16-byte key configured the V2 container is decrypted with that key and not
\* with the V1 default key.
C13_V2NeedsSixteenByteKey ==
    (arg.fn = "decryptAndStore" /\ ret.done /\ getDatVersion(arg.file) = Version(2)) =>
        /\ arg.imageAesKey.length # 16 =>
              ~ret.success /\ ~ret.outputWritten /\ ~ret.resolvedCached
        /\ (arg.imageAesKey.length = 16 /\ ret.outputWritten) =>
              /\ ret.aesKey.text = arg.imageAesKey.text
              /\ ret.aesKey.text # defaultV1AesKey.text

---------------------------------------------------------------------------
(* Claims about voice messages *)

\* C14: within a media database getVoiceDataFromMediaDb queries by identity and
\* exact time, then by exact time alone, then by the 5-second window, in that
\* order; a query is made only after every earlier query returned no decodable
\* row, and the first decodable row is what the lookup returns.
C14_StrategiesInOrder ==
    arg.fn = "getVoiceDataFromMediaDb" =>
        /\ \A i \in 1..Len(ret.log) : \A j \in 1..Len(ret.log) :
              i < j =>
                 /\ ret.log[i].answer # "row"
                 /\ \/ ret.log[i].db < ret.log[j].db
                    \/ ret.log[i].db = ret.log[j].db
                         /\ ret.log[i].strategy < ret.log[j].strategy
        /\ \A j \in 1..Len(ret.log) :
              ret.log[j].strategy = 3 =>
                 \E i \in 1..Len(ret.log) :
                    /\ ret.log[i].db = ret.log[j].db /\ ret.log[i].strategy = 2
                    /\ ret.log[i].answer \in {"none", "undecodable"}
        /\ ret.done =>
              IF \E i \in 1..Len(ret.log) : ret.log[i].answer = "row"
              THEN /\ ret.log[Len(ret.log)].answer = "row"
                   /\ ret.data = [db |-> ret.log[Len(ret.log)].db,
                                  strategy |-> ret.log[Len(ret.log)].strategy]
              ELSE ret.data = NoVoice

\* C14 witness: the first database answered all three strategies without a
\* decodable row, and the lookup returned the row that the window query of the
\* second database found after its first two strategies found none.
C14_Witness ==
    /\ arg.fn = "getVoiceDataFromMediaDb" /\ ret.done
    /\ Len(ret.log) = 6
    /\ [i \in 1..6 |-> ret.log[i].strategy] = <<1, 2, 3, 1, 2, 3>>
    /\ ret.log[2].answer = "undecodable"
    /\ ret.data = [db |-> 2, strategy |-> 3]

\* C15: getVoiceTranscript requests for the same cache key that overlap in time
\* all await one and the same transcription task, so that the backend runs once
\* for them and they receive the same result.
C15_OverlappingShareOneRun ==
    \A r, q \in VoiceReqIds :
        (/\ transcribeReqs[r].pc = "waiting" /\ transcribeReqs[q].pc = "waiting"
         /\ transcribeReqs[r].key = transcribeReqs[q].key)
            => transcribeReqs[r].run = transcribeReqs[q].run

\* C16: a request that awaits a transcription has had its onPartial called once
\* for every partial result the transcription produced since the request began
\* to await it.
C16_PartialsReachEveryWaiter ==
    \A r \in VoiceReqIds : transcribeReqs[r].heard = transcribeReqs[r].due

---------------------------------------------------------------------------
(* Claims about the engine as a whole *)

\* C17: no public operation rejects: each completes with data or with a
\* {success: false, error} result, whichever of its steps fails.
C17_NoOperationRejects ==
    arg.fn = "public" =>
        \A i \in 1..Len(ret.calls) : ret.calls[i].outcome # "rejected"

\* C18: a convertHevcToJpg invocation that has started completes, so that the
\* decryptImage request it serves returns and its in-flight entry is released.
C18_ConversionCompletes ==
    (arg.fn = "convertHevcToJpg" /\ ret.pc = "running")
        ~> (ret.pc = "returned" /\ ~ret.pendingHeld)

\* C19: a native cursor that getMessages has opened and that is still open is
\* the stored cursor of its session or is held by a call that is still running,
\* so that its replacement or close() closes it: no open cursor is left that
\* nothing will close.
C19_OpenCursorsAreOwned ==
    \A h \in Handles :
        native[h].st = "open" =>
            \/ \E s \in Sessions : messageCursors[s] = h
            \/ \E c \in Calls :
                  calls[c].pc \notin {"idle", "done"} /\ calls[c].state = h

CacheDirNames == {"Images", "images", "Voices", "Emojis"}

---------------------------------------------------------------------------
(* Claims about message mapping and the contact cache *)

\* The stored is-send flag of a row is absent: column missing or null.
FlagAbsent(row) == row.isSendColumn = "none" \/ row.isSendValue = JsNull

\* C21: a row whose stored is-send flag is absent and whose sender is present
\* gets isSend 1 when the sender is the own identity and 0 otherwise, and
\* isSend is always 1, 0 or null.
C21_IsSendInferred ==
    (arg.fn = "mapRowsToMessages" /\ ret.done) =>
        \A i \in 1..Len(arg.rows) :
            LET row == arg.rows[i]
                own == toLowerCase(SenderOf(row)) \in
                           {toLowerCase(arg.myWxid),
                            toLowerCase(cleanAccountDirName(arg.myWxid))}
                isSend == ret.messages[i].isSend
            IN  /\ isSend \in {Num(1), Num(0), JsNull}
                /\ (FlagAbsent(row) /\ SenderOf(row) # NoIdentity /\ arg.myWxid # NoIdentity)
                       => isSend = (IF own THEN Num(1) ELSE Num(0))

\* C22: a read of a contact cache entry whose avatar URL contains the malformed
\* 'base64,ffd8' encoding is never answered from the cache.
C22_MalformedAvatarNotServed ==
    (arg.fn = "contacts" /\ ret.read.op # "none"
        /\ ret.read.cached.present /\ IncludesHexHeader(ret.read.cached.avatarUrl))
        => ~ret.read.hit

---------------------------------------------------------------------------
(* Claims about the cursor's fetched count *)

\* no getMessages call is in flight
BetweenCalls == \A c \in Calls : calls[c].pc \in {"idle", "done"}

\* C23: between calls, the fetched count stored for a session is the number of
\* rows read from its current cursor since it was opened, and a successful
\* call leaves it at the count it found (0 for a cursor it opened) plus the
\* rows it skipped plus the records it returns.
C23_FetchedCountsRowsRead ==
    BetweenCalls =>
        /\ \A s \in Sessions :
              messageCursors[s] # 0 =>
                  stateObj[messageCursors[s]].fetched
                      = native[stateObj[messageCursors[s]].cursor].pos
        /\ \A c \in Calls :
              (calls[c].pc = "done" /\ calls[c].result.kind = "ok") =>
                  stateObj[calls[c].state].fetched
                      = (IF calls[c].fresh THEN 0 ELSE calls[c].snap.fetched)
                        + calls[c].skipped + Len(calls[c].result.messages)

\* a call that opened a cursor, skipped rows and returned a page
C23_Witness ==
    /\ BetweenCalls
    /\ calls[1].pc = "done" /\ calls[1].result.kind = "ok"
    /\ calls[1].fresh /\ calls[1].skipped > 0
    /\ Len(calls[1].result.messages) > 0

\* The call k asks for a later page of the stored cursor with the parameters
\* the cursor was opened with, at an offset other than the stored count.
OffsetMismatch(k) ==
    /\ k.decided /\ ~MustRebuild(k)
    /\ k.offset # k.snap.fetched

\* C24: a call with offset > 0 and unchanged limit, startTime, endTime and
\* ascending whose offset differs from the stored fetched count closes and
\* opens no cursor, and returns the next batch of the stored cursor.
C24_MismatchKeepsCursor ==
    \A c \in Calls :
        LET k == calls[c]
            h == k.snap.cursor
            seq == SeqOf(k)
        IN  OffsetMismatch(k) =>
                /\ k.closedH = 0 /\ ~k.opened /\ ~k.fresh
                /\ k.state = h /\ messageCursors[k.sid] = h
                /\ k.fetchedFrom \in {0, h}
                /\ (k.pc = "done" /\ native[h].st = "open") =>
                      /\ k.fetchedFrom = h
                      /\ k.result.kind = "ok"
                      /\ k.result.messages =
                            normalizeMessageOrder(
                                SubSeq(seq, k.snap.fetched + 1,
                                       Min(Len(seq), k.snap.fetched + BatchSizeOf(k.limit))))

\* a call at offset 1 on a cursor that had read 2 rows returned the rows that
\* follow those 2
C24_Witness ==
    /\ OffsetMismatch(calls[1])
    /\ calls[1].pc = "done" /\ calls[1].result.kind = "ok"
    /\ calls[1].offset = 1 /\ calls[1].snap.fetched = 2
    /\ Len(calls[1].result.messages) = 2
    /\ native[calls[1].state].st = "open"

---------------------------------------------------------------------------
(* Claims about the in-flight maps, the update flag and the voice caches *)

\* C25: once every decryptImage request for a key has returned, the image
\* service's pending map has no entry for the key; once every
\* getVoiceTranscript request for a cache key has returned, the transcript
\* pending map has no entry for it.
C25_PendingEntryReleased ==
    /\ \A k \in ImageKeys :
          (\A r \in ReqIds : reqs[r].key = k => reqs[r].pc \in {"idle", "done"})
              => pending[k] = 0
    /\ \A k \in VoiceKeys :
          (\A r \in VoiceReqIds :
                transcribeReqs[r].key = k => transcribeReqs[r].pc \in {"idle", "done"})
              => voiceTranscriptPending[k] = 0

\* two decryptImage requests shared a run that failed, and both have returned
C25_Witness ==
    /\ reqs[1].pc = "done" /\ reqs[2].pc = "done"
    /\ reqs[1].op = "decryptImage" /\ reqs[2].op = "decryptImage"
    /\ reqs[1].key = reqs[2].key
    /\ reqs[1].task # 0 /\ reqs[1].task = reqs[2].task
    /\ ~reqs[1].result.success /\ ~reqs[2].result.success
    /\ pending[reqs[1].key] = 0

\* C26: between two HD writes for a key, subscribers receive at most one
\* update-available notification for it.
C26_OneUpdateNoticePerKey ==
    \A key \in ImageKeys : imageUpdates[key] <= 1

\* The step is a call of resolveCachedImage or decryptImage (without force) by
\* request r that finds the key's resolved path cached, the file present and
\* an image, and returns it.
ResolvedPathHit(r) ==
    /\ reqs[r].pc \in {"idle", "done"} /\ reqs'[r].pc = "done" /\ reqs'[r] # reqs[r]
    /\ reqs'[r].op \in {"resolveCachedImage", "decryptImage"} /\ ~reqs'[r].force
    /\ resolvedCache[reqs'[r].key] # NoPath
    /\ resolvedCache[reqs'[r].key] \in outFiles
    /\ isImageFile(resolvedCache[reqs'[r].key])

\* C27: a resolved-path cache hit that serves a thumbnail returns success and,
\* unless the key's update flag is set, starts a check for a higher-quality
\* variant (which may answer at once and set the flag); a hit that serves an HD
\* variant clears the key's update flag and starts no check.
C27_HitChecksForHd ==
    [][\A r \in ReqIds :
          ResolvedPathHit(r) =>
              LET key == reqs'[r].key
                  started == \E i \in CheckIds : checks[i].pc = "free" /\ checks'[i].pc # "free"
                                                    /\ checks'[i].key = key
              IN  /\ reqs'[r].result.success
                  /\ reqs'[r].result.path = resolvedCache[key]
                  /\ IF isThumbnailPath(resolvedCache[key])
                     THEN ~updateFlags[key] => (started \/ updateFlags'[key])
                     ELSE ~updateFlags'[key] /\ checks' = checks]_vars

\* C28: each in-memory voice cache holds at most 50 entries; an insertion
\* removes an entry only when it makes the cache exceed 50, it then removes
\* exactly one, and that one was inserted before every entry that stays (a key
\* set again keeps the age of its first insertion).
C28_OldestInsertedEvicted ==
    (arg.fn = "voiceCache" /\ ret.last.key # 0) =>
        LET last == ret.last
            grown == last.sizeBefore + (IF last.wasPresent THEN 0 ELSE 1)
        IN  /\ Len(ret.cache) <= voiceCacheMaxEntries
            /\ last.key \in Keys(ret.cache)
            /\ IF grown > voiceCacheMaxEntries
               THEN /\ Cardinality(last.gone) = 1
                    /\ Len(ret.cache) = voiceCacheMaxEntries
                    /\ \A b \in last.goneBorn :
                          \A k \in Keys(ret.cache) : b < ret.born[k]
               ELSE last.gone = {} /\ Len(ret.cache) = grown

\* the cache was full, its oldest key had been set again, and the next new key
\* evicted that oldest key all the same
C28_Witness ==
    /\ arg.fn = "voiceCache"
    /\ ret.last.gone = {1} /\ ret.last.key = 51
    /\ ret.inserts = 51
    /\ Len(ret.cache) = voiceCacheMaxEntries /\ ret.cache[1] = 2
---------------------------------------------------------------------------
(* Claims about decryptDatV4 and the wrapped-codec fallback *)

\* aesSize rounded up to the next multiple of 16, a whole block more when it
\* is a multiple of 16 already
AlignedSize(aesSize) == 16 * ((aesSize \div 16) + 1)

\* out is unpadded-AES-plaintext ++ raw ++ xored for a payload whose first
\* `aligned` bytes are the AES region and whose last xorSize bytes are the
\* XOR region
V4Layout(payload, aligned, xorSize, xorKey, aesKey, out) ==
    /\ 0 <= aligned /\ 0 <= xorSize /\ aligned + xorSize <= Len(payload)
    /\ LET plain == aesDecrypt(SubSeq(payload, 1, aligned), aesKey)
           unpadded == IF aligned = 0 THEN Unpadded(<<>>)
                       ELSE strictRemovePadding(plain.data)
           raw == SubSeq(payload, aligned + 1, Len(payload) - xorSize)
           xorData == SubSeq(payload, Len(payload) - xorSize + 1, Len(payload))
       IN /\ ~plain.threw /\ ~unpadded.threw
          /\ out = unpadded.data \o raw \o decryptDatV3(xorData, xorKey)

\* C29: decryptDatV4 splits the payload after the 15-byte header into an AES
\* region of aesSize rounded up to the next multiple of 16, a raw middle and
\* a final XOR region of xorSize bytes, and returns unpadded plaintext ++ raw
\* ++ xored; a container shorter than 15 bytes, an aligned AES size larger
\* than the payload, and an xorSize that is negative or larger than the
\* remaining bytes are rejected with an error.
C29_V4Layout ==
    (arg.fn = "decryptDatV4" /\ ret.done) =>
        LET file == arg.file
            aligned == AlignedSize(file.aesSize)
        IN /\ file.short => ret.result.threw
           /\ (~file.short /\ aligned > Len(file.payload)) => ret.result.threw
           /\ (~file.short /\ (file.xorSize < 0
                                 \/ file.xorSize > Len(file.payload) - aligned))
                 => ret.result.threw
           /\ ~ret.result.threw =>
                 V4Layout(file.payload, aligned, file.xorSize, arg.xorKey, arg.aesKey,
                          ret.result.data)

\* the same for containers whose aesSize field is not below -16
C29_V4LayoutFromMinus16 ==
    arg.fn = "decryptDatV4" /\ arg.file.aesSize >= -16 => C29_V4Layout

\* C30: when the decrypted payload is a wrapped-codec payload that the
\* converter could not turn into an image, decryptImage answers with the
\* wxgf error and the recovered stream stays in the cache: a later request
\* never starts decrypting a container whose recovered stream is cached.
C30_WxgfStreamKept ==
    [][\A t \in TaskIds :
          /\ (tasks[t].pc = "written" /\ tasks[t].outputPath.ext = ".hevc"
                /\ tasks'[t].pc = "free")
                => \A r \in ReqIds :
                      reqs[r].pc = "waiting" /\ reqs[r].task = t
                         => reqs'[r].pc = "done" /\ reqs'[r].result.error = "wxgf"
          /\ (tasks[t].pc = "resolving" /\ tasks'[t].pc = "decrypting")
                => getCacheOutputPathFromDat(tasks'[t].datPath, ".hevc") \notin outFiles]_vars

---------------------------------------------------------------------------
(* Claims about the mapped records, the audio shards and the cache index *)

\* no content can be read from the row: its content columns hold nothing that
\* decodes to a string, or a frame that cannot be decompressed
Unreadable(row) ==
    /\ row.compressContent \in {"absent", "object", "zstd_bad"}
    /\ row.messageContent \in {"absent", "object"}

\* the content columns of the row hold nothing that decodes to a string
NoContent(row) ==
    /\ row.compressContent \in {"absent", "object"}
    /\ row.messageContent \in {"absent", "object"}

\* the label strings of parseMessageContent and getMessageTypeLabel
GenericLabels ==
    {"[text]", "[image]", "[voice]", "[voice message]", "[sticker]", "[link]",
     "[quote]", "[message]"}

\* C31: mapRowsToMessages returns one record per row, in row order, whatever
\* the other rows hold; a row whose content cannot be parsed gets no sub-field
\* and a generic label as parsedContent, and a local type that cannot be
\* parsed counts as type 1.
C31_RowsDegradeToLabels ==
    (arg.fn = "mapRowContents" /\ ret.done) =>
        /\ Len(ret.messages) = Len(arg.rows)
        /\ \A i \in 1..Len(arg.rows) :
              LET row == arg.rows[i]
                  message == ret.messages[i]
              IN /\ message = ContentRecord(row)
                 /\ row.localType \in {"absent", "x"} => message.localType = "1"
                 /\ Unreadable(row) =>
                       /\ message.defined = {}
                       /\ message.parsedContent \in GenericLabels

\* the same for the rows that hold no content at all
C31_EmptyRowsDegradeToLabels ==
    (arg.fn = "mapRowContents" /\ ret.done) =>
        /\ Len(ret.messages) = Len(arg.rows)
        /\ \A i \in 1..Len(arg.rows) :
              LET row == arg.rows[i]
                  message == ret.messages[i]
              IN /\ message = ContentRecord(row)
                 /\ row.localType \in {"absent", "x"} => message.localType = "1"
                 /\ NoContent(row) =>
                       /\ message.defined = {}
                       /\ message.rawContent = ""
                       /\ message.parsedContent = getMessageTypeLabel(message.localType)

\* C32: between two calls of clearCaches the schema of a media database is
\* queried by at most one voice lookup, and clearCaches leaves no schema in
\* the cache.
C32_SchemaDiscoveredOnce ==
    arg.fn = "mediaDbSchemaCache" =>
        /\ \A d \in ShardIds : ret.discoveries[d] <= 1
        /\ ret.cleared => \A d \in ShardIds : ~ret.cache[d]

\* the part that holds: a schema that was stored is not queried again, and
\* nothing but a discovery changes the cache
C32_StoredSchemaReused ==
    arg.fn = "mediaDbSchemaCache" =>
        \A d \in ShardIds : (arg.usable[d] /\ ret.clears = 0) => ret.discoveries[d] <= 1

\* C33: once the indexer has walked the cache, every key under which a
\* non-thumbnail file was indexed maps to a non-thumbnail path, in whatever
\* order the files were visited.
C33_IndexPrefersNonThumbnail ==
    (arg.fn = "ensureCacheIndexed" /\ ret.done) =>
        \A key \in IndexKeys :
            (\E entry \in arg.files : key \in KeysOf(entry) /\ ~isThumbnailPath(entry))
                => /\ ret.index[key] \in arg.files
                   /\ key \in KeysOf(ret.index[key])
                   /\ ~isThumbnailPath(ret.index[key])

\* a thumbnail was visited last, after a non-thumbnail file of the same key
C33_Witness ==
    /\ arg.fn = "ensureCacheIndexed" /\ ret.done /\ Len(ret.visited) = 3
    /\ LET key == [base |-> "0a", suffix |-> "", ext |-> ""]
       IN /\ isThumbnailPath(ret.visited[3]) /\ key \in KeysOf(ret.visited[3])
          /\ ~isThumbnailPath(ret.visited[2]) /\ key \in KeysOf(ret.visited[2])
          /\ isThumbnailPath(ret.visited[1]) /\ key \in KeysOf(ret.visited[1])
          /\ ret.index[key] = ret.visited[2]

---------------------------------------------------------------------------
(* Claims about getMessages' stored cursor and getLatestMessages *)

\* the handle stored for a session that no call is working on is open
StoredCursorsOpen ==
    \A s \in Sessions :
        (InFlight(calls, s) = {} /\ messageCursors[s] # 0)
            => native[messageCursors[s]].st = "open"

\* C34: getMessages never fetches from a handle that has been closed, also
\* after a call that closed the old cursor and failed to open a new one.
C34_NeverFetchesClosedCursor ==
    \A c \in Calls : calls[c].fetchedFrom # 0 => native[calls[c].fetchedFrom].st = "open"

---------------------------------------------------------------------------
(* Claims about forced requests, the in-flight maps and the AES key *)

\* C35: a decryptImage request with force = true never completes with success
\* and a thumbnail output.
C35_ForcedNeverThumbnail ==
    \A r \in ReqIds :
        (reqs[r].pc = "done" /\ reqs[r].op = "decryptImage" /\ reqs[r].force
           /\ reqs[r].result.success)
            => ~reqs[r].result.isThumb /\ ~isThumbnailPath(reqs[r].result.path)

\* the same for a forced request that started its own decryptImageInternal run
C35_ForcedAloneNeverThumbnail ==
    [][\A t \in TaskIds :
          (tasks[t].force /\ tasks'[t].pc = "free" /\ tasks[t].pc # "free")
             => \A r \in ReqIds :
                   (reqs[r].pc = "waiting" /\ reqs[r].task = t /\ reqs'[r].pc = "done"
                      /\ reqs'[r].result.success)
                      => ~reqs'[r].result.isThumb /\ ~isThumbnailPath(reqs'[r].result.path)]_vars


\* C36: at every moment at most one decryptImageInternal run is executing per
\* key and at most one transcription task per cache key, clearCache and
\* clearCaches included among the steps.
C36_OneExecutionPerKey ==
    /\ \A t, u \in TaskIds :
          (tasks[t].pc # "free" /\ tasks[u].pc # "free" /\ tasks[t].key = tasks[u].key)
              => t = u
    /\ \A t, u \in VoiceRunIds :
          (/\ transcribeRuns[t].pc # "free" /\ transcribeRuns[u].pc # "free"
           /\ transcribeRuns[t].key = transcribeRuns[u].key) => t = u

\* C36, second half: a run that settles removes no in-flight entry but its own
C36_SettleRemovesOwnEntry ==
    [][/\ \A t \in TaskIds :
             (tasks[t].pc # "free" /\ tasks'[t].pc = "free")
                 => pending[tasks[t].key] \in {0, t}
       /\ \A t \in VoiceRunIds :
             (transcribeRuns[t].pc # "free" /\ transcribeRuns'[t].pc = "free")
                 => voiceTranscriptPending[transcribeRuns[t].key] \in {0, t}]_vars

\* what the run on the same container, with the same body and decoded image,
\* may return when `key` is the configured AES key
SameRunUnder(key) ==
    {decryptAndStore(arg.file, key, v4, ext) : v4 \in {"ok", "throw"}, ext \in {".jpg", ".hevc"}}

\* C37: what decrypting a container without signature or with the V1 signature
\* returns is what it returns under every other configured AES key: absent,
\* shorter than 16 characters, or valid.
C37_KeyIndependentBelowV2 ==
    (/\ arg.fn = "decryptAndStore" /\ ret.done
     /\ getDatVersion(arg.file) \in {Version(0), Version(1)})
        => \A key \in ConfiguredKeys : ret \in SameRunUnder(key)

\* C37 for the keys resolveAesKey accepts: absent, or 16 characters and more
C37_KeyIndependentForAcceptedKeys ==
    (/\ arg.fn = "decryptAndStore" /\ ret.done
     /\ getDatVersion(arg.file) \in {Version(0), Version(1)}
     /\ arg.imageAesKey.length \notin 1..15)
        => \A key \in ConfiguredKeys : key.length \notin 1..15 => ret \in SameRunUnder(key)

---------------------------------------------------------------------------
(* Claims about the voice cache key, the audio shards and getLatestMessages *)

\* C38: right after getVoiceData has succeeded for a message,
\* resolveVoiceCache(sessionId, msgId) for the same message reports hasCache
\* with the audio that getVoiceData returned.
C38_ResolveFindsWhatWasStored ==
    (arg.fn = "voiceKeys" /\ ret.last.op = "getVoiceData" /\ ret.last.success)
        => resolveVoiceCache(ret, ret.last.sessionId, ret.last.msgId)
              = [success |-> TRUE, hasCache |-> TRUE, data |-> ret.last.data]

\* C38 for a message whose local id reads as its create_time
C38_ResolveFindsWhenIdIsTime ==
    (/\ arg.fn = "voiceKeys" /\ ret.last.op = "getVoiceData" /\ ret.last.success
     /\ ret.last.msgId = Decimal(MessageTime(ParseInt(ret.last.msgId))))
        => resolveVoiceCache(ret, ret.last.sessionId, ret.last.msgId)
              = [success |-> TRUE, hasCache |-> TRUE, data |-> ret.last.data]

\* database db holds a decodable row of the requested create_time, found by
\* the query on the time alone or, where the identity columns exist, by the
\* query on identity and time
ExactMatchIn(db) ==
    \/ arg.shards[db][2] = "row"
    \/ /\ arg.schemas[db].chatNameIdColumn /\ arg.schemas[db].name2IdTable
       /\ arg.shards[db][1] = "row"

\* C39: with several media databases the lookup returns a row of the 5-second
\* window only if no database holds a row of the exact time.
C39_WindowOnlyWithoutExactMatch ==
    (arg.fn = "getVoiceDataFromMediaDb" /\ ret.done /\ ret.data.strategy = 3)
        => \A db \in 1..Len(MediaDbs) : ~ExactMatchIn(db)

\* C39 within the database the row comes from: its query on the exact time
\* found no decodable row
C39_WindowOnlyAfterOwnExactQuery ==
    (arg.fn = "getVoiceDataFromMediaDb" /\ ret.done /\ ret.data.strategy = 3)
        => arg.shards[ret.data.db][2] # "row"

\* C40: no step of getLatestMessages changes the per-session cursor map or
\* the fetched count of a stored cursor, and when the call returns, the
\* cursor it opened has been closed: after a batch, after a failed fetch and
\* after an exception alike.
C40_LatestLeavesStoredCursors ==
    [][(arg.fn = "getLatestMessages" /\ ret' # ret) =>
          /\ messageCursors' = messageCursors
          /\ \A h \in Handles : stateObj'[h].fetched = stateObj[h].fetched
          /\ (ret'.pc = "returned" /\ ret.cursor # 0) => native'[ret.cursor].st = "closed"]_vars

\* C40 witness: a session has a stored cursor with rows fetched, and a
\* getLatestMessages call on that session whose fetch failed has returned
\* with its own cursor closed and the stored one still open.
C40_Witness ==
    /\ arg.fn = "getLatestMessages" /\ ret.pc = "returned"
    /\ ret.result.error = "fetch failed"
    /\ ret.cursor # 0 /\ native[ret.cursor].st = "closed"
    /\ messageCursors[ret.sid] \notin {0, ret.cursor}
    /\ stateObj[messageCursors[ret.sid]].fetched > 0
    /\ native[messageCursors[ret.sid]].st = "open"
=============================================================================
